---------------------------- MODULE Spec2Model ----------------------------
(***************************************************************************)
(* Model of the timeline-element web component (tltv/timeline-flow):       *)
(* the DST resolver (DefaultLocaleDataProvider), the DST stepper           *)
(* (dateTimeUtil), the date range tiler, the position calculator and the   *)
(* deferred scroll refill of timeline-element.ts.                          *)
(*                                                                         *)
(* Time.  A Date is modelled by its getTime() value, counted in SECONDS    *)
(* since 2020-01-01T00:00:00Z (the source counts milliseconds since 1970;  *)
(* 32-bit integers cannot hold a year of milliseconds).  Every interval of *)
(* the source is divided by 1000; every instant the model uses is a whole  *)
(* second.                                                                 *)
(*                                                                         *)
(* Zones.  The element formats dates with date-fns-tz format(), which      *)
(* prints the calendar fields of the Date in the runtime's local zone and  *)
(* uses the timeZone option for the offset token "xxx" only.  The model    *)
(* takes the runtime's zone to be the configured timeZone, so the local    *)
(* fields of an instant t are the UTC fields of t + offset(zone, t).       *)
(***************************************************************************)
EXTENDS Integers, Sequences, FiniteSets, TLC

(***************************************************************************)
(* JavaScript arithmetic                                                   *)
(***************************************************************************)
\* a % b of JavaScript: the remainder takes the sign of the dividend.
JsMod(a, b) == IF a >= 0 THEN a % b ELSE -((-a) % b)

Max(a, b) == IF a >= b THEN a ELSE b
Min(a, b) == IF a <= b THEN a ELSE b
Abs(a) == IF a >= 0 THEN a ELSE -a

\* A local constant: F applied to the value v of its initialiser.
With(v, F(_)) == F(v)

(***************************************************************************)
(* DateTimeConstants (seconds)                                             *)
(***************************************************************************)
DAYS_IN_WEEK == 7
HOURS_IN_DAY == 24
HOUR_INTERVAL == 60 * 60
DAY_INTERVAL == 24 * 60 * 60

(***************************************************************************)
(* The Gregorian calendar of the runtime's Date: day number (days since    *)
(* 2020-01-01) <-> civil date.                                             *)
(***************************************************************************)
\* Day number of a civil date (proleptic Gregorian, days since 2020-01-01):
\* the year is counted from March, 737730 is the day number of 2020-01-01
\* counted from 0000-03-01.
DaysFromCivil(y, m, d) ==
    LET yy == IF m <= 2 THEN y - 1 ELSE y
        mp == IF m > 2 THEN m - 3 ELSE m + 9
    IN  (yy \div 400) * 146097 + (yy % 400) * 365 + (yy % 400) \div 4
          - (yy % 400) \div 100 + (153 * mp + 2) \div 5 + d - 1 - 737730

\* Civil date [y, m, d] of the day doy (0 = March 1st) of the year yy that
\* is counted from March.
CivilOfYearDay(yy, doy) ==
    LET mp == (5 * doy + 2) \div 153
    IN  [y |-> IF mp < 10 THEN yy ELSE yy + 1,
         m |-> IF mp < 10 THEN mp + 3 ELSE mp - 9,
         d |-> doy - (153 * mp + 2) \div 5 + 1]

\* Civil date of the day doe of the 400 year era.
CivilOfEraDay(era, doe) ==
    With((doe - doe \div 1460 + doe \div 36524 - doe \div 146096) \div 365,
         LAMBDA yoe : CivilOfYearDay(yoe + era * 400,
                          doe - (365 * yoe + yoe \div 4 - yoe \div 100)))

\* Civil date [y, m, d] of a day number.
CivilFromDays(n) ==
    CivilOfEraDay((n + 737730) \div 146097, (n + 737730) % 146097)

\* The instant of a UTC date and hour.
UTC(y, m, d, h) == DaysFromCivil(y, m, d) * DAY_INTERVAL + h * HOUR_INTERVAL

(***************************************************************************)
(* Time zones: the offset from UTC (seconds, east positive) that the       *)
(* format token "xxx" prints.  Three zones of the IANA database, with      *)
(* their transitions of 2019..2021.                                        *)
(***************************************************************************)
TimeZones == {"UTC", "Europe/London", "Australia/Sydney"}

\* Standard offset of a zone.
StdOffset(tz) ==
    CASE tz = "UTC" -> 0
      [] tz = "Europe/London" -> 0
      [] tz = "Australia/Sydney" -> 10 * HOUR_INTERVAL

\* Amount the clocks are advanced during summer time.
DstSaving(tz) == IF tz = "UTC" THEN 0 ELSE HOUR_INTERVAL

\* The periods [from, to) of summer time, as UTC <<year, month, day, hour>>.
LondonSummerTime ==
    { << <<2019, 3, 31, 1>>, <<2019, 10, 27, 1>> >>,
      << <<2020, 3, 29, 1>>, <<2020, 10, 25, 1>> >>,
      << <<2021, 3, 28, 1>>, <<2021, 10, 31, 1>> >> }

SydneySummerTime ==
    { << <<2018, 10, 6, 16>>, <<2019, 4, 6, 16>> >>,
      << <<2019, 10, 5, 16>>, <<2020, 4, 4, 16>> >>,
      << <<2020, 10, 3, 16>>, <<2021, 4, 3, 16>> >>,
      << <<2021, 10, 2, 16>>, <<2022, 4, 2, 16>> >> }

DstPeriods(tz) ==
    CASE tz = "UTC" -> {}
      [] tz = "Europe/London" -> LondonSummerTime
      [] tz = "Australia/Sydney" -> SydneySummerTime

\* TRUE when the clocks of the zone are advanced at instant t.
InSummerTime(tz, t) ==
    \E p \in DstPeriods(tz) :
        /\ UTC(p[1][1], p[1][2], p[1][3], p[1][4]) <= t
        /\ t < UTC(p[2][1], p[2][2], p[2][3], p[2][4])

\* Offset from UTC in effect at instant t.
ZoneOffset(tz, t) == StdOffset(tz) + (IF InSummerTime(tz, t) THEN DstSaving(tz) ELSE 0)

(***************************************************************************)
(* Local calendar fields of a Date (getFullYear, getDay, getHours and the  *)
(* format patterns yyyy, M, d, HH).                                        *)
(***************************************************************************)
LocalSeconds(tz, t) == t + ZoneOffset(tz, t)
LocalDayNumber(tz, t) == LocalSeconds(tz, t) \div DAY_INTERVAL
LocalCivil(tz, t) == CivilFromDays(LocalDayNumber(tz, t))

getFullYear(tz, t) == LocalCivil(tz, t).y
\* Date.getDay(): 0 = Sunday .. 6 = Saturday (2020-01-01 was a Wednesday).
getDayOfWeek(tz, t) == (LocalDayNumber(tz, t) + 3) % 7
getHours(tz, t) == (LocalSeconds(tz, t) % DAY_INTERVAL) \div HOUR_INTERVAL

\* The instant new Date(y, m, d, h) / toDate("y-m-dTh") gives for a local
\* wall-clock time: the instant whose local fields are the given ones.  A
\* wall time that occurs twice resolves to the earlier instant, one that is
\* skipped is read with the offset in effect before the gap.
LocalToInstant(tz, y, m, d, h) ==
    With(UTC(y, m, d, h), LAMBDA wall :
        IF InSummerTime(tz, wall - StdOffset(tz) - DstSaving(tz))
        THEN wall - StdOffset(tz) - DstSaving(tz)
        ELSE wall - StdOffset(tz))

(***************************************************************************)
(* DefaultLocaleDataProvider.  A provider is the record                    *)
(* [timeZone, firstDayOfWeek] of the constructor arguments the model       *)
(* reads; NoProvider is a null provider.                                   *)
(***************************************************************************)
NoProvider == [timeZone |-> "none", firstDayOfWeek |-> -1]

DefaultLocaleDataProvider(timeZone, firstDayOfWeek) ==
    [timeZone |-> timeZone, firstDayOfWeek |-> firstDayOfWeek]

getFirstDayOfWeek(p) == p.firstDayOfWeek + 1

\* format(date, "xxx") prints sign, two hour digits and two minute digits;
\* getTimezoneOffset parses them back: (hour * 60 + minute), negated for
\* "-", times one minute.
getTimezoneOffset(p, zonedDate) ==
    With(ZoneOffset(p.timeZone, zonedDate), LAMBDA off :
        LET hour     == (Abs(off) \div 60) \div 60
            minute   == (Abs(off) \div 60) % 60
            tzOffset == (IF hour = 24 THEN 0 ELSE hour) * 60 + minute
        IN  (IF off < 0 THEN -1 * tzOffset ELSE tzOffset) * 60)

\* new Date(`${zonedDate.getFullYear()}-01-01T00:00:00Z`) and the July one.
JanSample(p, zonedDate) == UTC(getFullYear(p.timeZone, zonedDate), 1, 1, 0)
JulSample(p, zonedDate) == UTC(getFullYear(p.timeZone, zonedDate), 7, 1, 0)

\* The magnitude of the zone's shift for every date of a year whose samples
\* differ, whatever the date's own offset.
getDaylightAdjustment_AnyDate(p, zonedDate) ==
    With(getTimezoneOffset(p, JanSample(p, zonedDate)), LAMBDA janOffset :
    With(getTimezoneOffset(p, JulSample(p, zonedDate)), LAMBDA julOffset :
        Max(janOffset, julOffset) - Min(janOffset, julOffset)))

getDaylightAdjustment(p, zonedDate) ==
    With(getTimezoneOffset(p, JanSample(p, zonedDate)), LAMBDA janOffset :
    With(getTimezoneOffset(p, JulSample(p, zonedDate)), LAMBDA julOffset :
    With(getTimezoneOffset(p, zonedDate), LAMBDA targetOffset :
        IF janOffset # julOffset /\ targetOffset < Max(janOffset, julOffset)
        THEN Max(janOffset, julOffset) - Min(janOffset, julOffset)
        ELSE 0)))

\* isDaylightTime that answers by the clocks of the zone being advanced.
isDaylightTime_ClockAdvanced(p, zonedDate) == InSummerTime(p.timeZone, zonedDate)

isDaylightTime(p, zonedDate) ==
    With(getTimezoneOffset(p, JanSample(p, zonedDate)), LAMBDA janOffset :
    With(getTimezoneOffset(p, JulSample(p, zonedDate)), LAMBDA julOffset :
    With(getTimezoneOffset(p, zonedDate), LAMBDA targetOffset :
        IF janOffset # julOffset
        THEN targetOffset < Max(janOffset, julOffset)
        ELSE FALSE)))

\* formatDate(date, pattern) for the patterns the tiler uses.
formatYear(p, date) == LocalCivil(p.timeZone, date).y
formatMonth(p, date) == LocalCivil(p.timeZone, date).m
formatDayOfMonth(p, date) == LocalCivil(p.timeZone, date).d

(***************************************************************************)
(* dateTimeUtil                                                            *)
(***************************************************************************)
\* Clears Daylight saving time adjustment from the given time.
DateUtil_toNormalDate(zonedDate, adjustment) == zonedDate - adjustment

\* format(zonedDate, "HH") is the local hour of the date.
adjustToMiddleOfDay(tz, zonedDate) ==
    LET addHours == 12 - getHours(tz, zonedDate)
    IN  zonedDate + addHours * HOUR_INTERVAL

\* getDSTAdjustedDate that moves the boundary by twice the adjustment.
DateUtil_getDSTAdjustedDate_Twice(previousIsDST, zonedDate, dstAdjustment) ==
    IF previousIsDST /\ ~(dstAdjustment > 0) THEN zonedDate + 2 * dstAdjustment
    ELSE IF ~previousIsDST /\ dstAdjustment > 0 THEN zonedDate - 2 * dstAdjustment
    ELSE zonedDate

DateUtil_getDSTAdjustedDate(previousIsDST, zonedDate, dstAdjustment) ==
    LET isDST == dstAdjustment > 0
    IN  IF previousIsDST /\ ~isDST THEN zonedDate + dstAdjustment
        ELSE IF ~previousIsDST /\ isDST THEN zonedDate - dstAdjustment
        ELSE zonedDate

\* TimelineElement.toNormalDate / getDSTAdjustedDate: the utilities applied
\* with the provider's adjustment for the date itself.
toNormalDate(p, zonedDate) ==
    DateUtil_toNormalDate(zonedDate, getDaylightAdjustment(p, zonedDate))

getDSTAdjustedDate(p, previousIsDST, zonedDate) ==
    DateUtil_getDSTAdjustedDate(previousIsDST, zonedDate, getDaylightAdjustment(p, zonedDate))

(***************************************************************************)
(* BlockRowData: two insertion-ordered Maps, blocks (key -> element) and   *)
(* blockLength (key -> number).  A Map is a sequence of [key, val]         *)
(* entries in insertion order; a key "<label>_<n>" is the pair             *)
(* <<label, n>>; an element is modelled by its caption label.              *)
(***************************************************************************)
MapHas(m, k) == \E i \in DOMAIN m : m[i].key = k

MapGet(m, k) == m[CHOOSE i \in DOMAIN m : m[i].key = k].val

MapSet(m, k, v) ==
    IF MapHas(m, k)
    THEN [i \in DOMAIN m |-> IF m[i].key = k THEN [key |-> k, val |-> v] ELSE m[i]]
    ELSE Append(m, [key |-> k, val |-> v])

NewBlockRowData == [blocks |-> <<>>, blockLength |-> <<>>]

size(rowData) == Len(rowData.blocks)
getBlockLength(rowData, k) == MapGet(rowData.blockLength, k)
setBlockLength(rowData, k, length) ==
    [rowData EXCEPT !.blockLength = MapSet(@, k, length)]
setBlock(rowData, k, element) ==
    [rowData EXCEPT !.blocks = MapSet(@, k, element)]

(***************************************************************************)
(* Aggregation rows: key, newKey, createTimelineBlock, addBlock.           *)
(* A label is a number (year, month index, day of month); NoLabel is the   *)
(* null the loops start with.                                              *)
(***************************************************************************)
NoLabel == -1

key(prefix, rowData) == <<prefix, size(rowData)>>
newKey(prefix, rowData) == <<prefix, size(rowData) + 1>>

createTimelineBlock(k, text, rowData) ==
    setBlock(setBlockLength(rowData, k, 1), k, text)

\* addBlock without the increment of the length of the open run.
addBlock_NoIncrement(current, target, rowData) ==
    IF target # current
    THEN [current |-> target,
          rowData |-> createTimelineBlock(newKey(target, rowData), target, rowData)]
    ELSE [current |-> current, rowData |-> rowData]

\* addBlock that opens a new run for every leaf.
addBlock_AlwaysNew(current, target, rowData) ==
    [current |-> target,
     rowData |-> createTimelineBlock(newKey(target, rowData), target, rowData)]

\* Returns the new current label and the row.
addBlock(current, target, rowData) ==
    IF target # current
    THEN [current |-> target,
          rowData |-> createTimelineBlock(newKey(target, rowData), target, rowData)]
    ELSE [current |-> current,
          rowData |-> setBlockLength(rowData, key(current, rowData),
                          getBlockLength(rowData, key(current, rowData)) + 1)]

\* getMonth: parseInt(format(date, "M")) - 1.
getMonth(p, date) == formatMonth(p, date) - 1
getYear(p, date) == formatYear(p, date)
\* getDay: the day of month of the date moved to the middle of its day.
getDay(p, date) == formatDayOfMonth(p, adjustToMiddleOfDay(p.timeZone, date))

addYearBlock(p, currentYear, date, rowData) == addBlock(currentYear, getYear(p, date), rowData)
addMonthBlock(p, currentMonth, date, rowData) == addBlock(currentMonth, getMonth(p, date), rowData)
addDayBlock(p, currentDay, date, rowData) == addBlock(currentDay, getDay(p, date), rowData)

(***************************************************************************)
(* Weekday markers and the resolution block registerers.                   *)
(***************************************************************************)
\* lastDayOfWeek as updateTimeLine derives it from the provider.
LastDayOfWeekOf(p) ==
    IF getFirstDayOfWeek(p) = 1 THEN 7 ELSE Max(JsMod(getFirstDayOfWeek(p) - 1, 8), 1)

getWeekday(p, lastDayOfWeek, dayCounter) ==
    IF dayCounter = getFirstDayOfWeek(p) THEN "First"
    ELSE IF dayCounter = lastDayOfWeek THEN "Last"
    ELSE "Between"

isWeekEnd(dayCounter) == dayCounter = 1 \/ dayCounter = 7

\* The counters are the record c = [blocksInRange, resolutionBlockCount,
\* firstResBlockCount, lastResBlockCount].
ZeroCounters ==
    [blocksInRange |-> 0, resolutionBlockCount |-> 0,
     firstResBlockCount |-> 0, lastResBlockCount |-> 0]

registerHourResolutionBlock(c) ==
    [c EXCEPT !.blocksInRange = @ + 1, !.resolutionBlockCount = @ + 1]

registerDayResolutionBlock(c) ==
    [c EXCEPT !.blocksInRange = @ + 1, !.resolutionBlockCount = @ + 1]

\* registerWeekResolutionBlock that counts no block for a first leaf inside
\* a week.
registerWeekResolutionBlock_FirstDayOnly(c, index, weekDay, lastBlock, firstWeek) ==
    [c EXCEPT !.resolutionBlockCount = IF weekDay = "First" THEN @ + 1 ELSE @,
              !.firstResBlockCount =
                  IF firstWeek /\ (weekDay = "Last" \/ lastBlock) THEN index + 1 ELSE @,
              !.lastResBlockCount =
                  IF ~(firstWeek /\ (weekDay = "Last" \/ lastBlock)) /\ lastBlock
                  THEN JsMod(index + 1 - c.firstResBlockCount, 7) ELSE @,
              !.blocksInRange = @ + 1]

registerWeekResolutionBlock(c, index, weekDay, lastBlock, firstWeek) ==
    LET c1 == IF index = 0 \/ weekDay = "First"
              THEN [c EXCEPT !.resolutionBlockCount = @ + 1] ELSE c
        c2 == IF firstWeek /\ (weekDay = "Last" \/ lastBlock)
              THEN [c1 EXCEPT !.firstResBlockCount = index + 1]
              ELSE IF lastBlock
              THEN [c1 EXCEPT !.lastResBlockCount =
                                  JsMod(index + 1 - c1.firstResBlockCount, 7)]
              ELSE c1
    IN  [c2 EXCEPT !.blocksInRange = @ + 1]

(***************************************************************************)
(* The date range tiler.  The element is read through a record el with the *)
(* fields localeDataProvider, resolution, lastDayOfWeek, firstDayOfRange,  *)
(* firstHourOfRange, yearRowVisible, monthRowVisible.  A loop is a         *)
(* recursive operator over the record of its local variables; leafDates    *)
(* and leafWeekdays record the date and weekday marker of every leaf       *)
(* handed to the registerer, in order.                                     *)
(***************************************************************************)
isDayRowVisible(el) == el.resolution = "Hour"

\* The three aggregation rows after one leaf.
AddRowBlocks(el, s, date) ==
    With(IF el.yearRowVisible
         THEN addYearBlock(el.localeDataProvider, s.currentYear, date, s.yearRowData)
         ELSE [current |-> s.currentYear, rowData |-> s.yearRowData], LAMBDA y :
    With(IF el.monthRowVisible
         THEN addMonthBlock(el.localeDataProvider, s.currentMonth, date, s.monthRowData)
         ELSE [current |-> s.currentMonth, rowData |-> s.monthRowData], LAMBDA m :
    With(IF isDayRowVisible(el)
         THEN addDayBlock(el.localeDataProvider, s.currentDay, date, s.dayRowData)
         ELSE [current |-> s.currentDay, rowData |-> s.dayRowData], LAMBDA d :
        [s EXCEPT !.currentYear = y.current, !.yearRowData = y.rowData,
                  !.currentMonth = m.current, !.monthRowData = m.rowData,
                  !.currentDay = d.current, !.dayRowData = d.rowData])))

\* Local variables of a tiling loop at its start (rows were cleared by clear()).
TilerStart(pos, isPreviousDst, counter) ==
    [pos |-> pos, index |-> 0, lastTimelineBlock |-> FALSE,
     isPreviousDst |-> isPreviousDst,
     dayCounter |-> counter, firstWeek |-> TRUE,
     c |-> ZeroCounters,
     currentYear |-> NoLabel, currentMonth |-> NoLabel, currentDay |-> NoLabel,
     yearRowData |-> NewBlockRowData, monthRowData |-> NewBlockRowData,
     dayRowData |-> NewBlockRowData,
     leafDates |-> <<>>, leafWeekdays |-> <<>>]

\* registerResolutionBlock of prepareTimelineForDayOrWeekResolution.
DayOrWeekRegister(el, s, date, lastTimelineBlock) ==
    LET weekday == getWeekday(el.localeDataProvider, el.lastDayOfWeek, s.dayCounter)
    IN  [s EXCEPT
           !.c = IF el.resolution = "Week"
                 THEN registerWeekResolutionBlock(s.c, s.index, weekday,
                                                  lastTimelineBlock, s.firstWeek)
                 ELSE registerDayResolutionBlock(s.c),
           !.firstWeek = IF el.resolution = "Week" /\ s.firstWeek
                            /\ (weekday = "Last" \/ lastTimelineBlock)
                         THEN FALSE ELSE s.firstWeek,
           !.dayCounter = Max(JsMod(s.dayCounter + 1, 8), 1),
           !.leafDates = Append(@, date),
           !.leafWeekdays = Append(@, weekday)]

\* One pass of the while loop of prepareTimelineForDayOrWeek.
DayOrWeekBody(el, s, interval, end) ==
    With(getDSTAdjustedDate(el.localeDataProvider, s.isPreviousDst, s.pos),
         LAMBDA date :
    With(isDaylightTime(el.localeDataProvider, date), LAMBDA isDST :
    With(getDSTAdjustedDate(el.localeDataProvider, isDST, date + interval) > end,
         LAMBDA last :
        [AddRowBlocks(el, DayOrWeekRegister(el, s, date, last), date)
            EXCEPT !.lastTimelineBlock = last,
                   !.isPreviousDst = isDST,
                   !.pos = date + interval,
                   !.index = @ + 1])))

\* The next n passes of the loop, or as many as it has left; the passes
\* are halved so that a long range nests no deeper than a short one.
RECURSIVE DayOrWeekSteps(_, _, _, _, _)
DayOrWeekSteps(el, s, interval, end, n) ==
    IF s.lastTimelineBlock THEN s
    ELSE IF n = 1 THEN DayOrWeekBody(el, s, interval, end)
    ELSE DayOrWeekSteps(el, DayOrWeekSteps(el, s, interval, end, n \div 2),
                        interval, end, n - n \div 2)

RECURSIVE DayOrWeekLoop(_, _, _, _)
DayOrWeekLoop(el, s, interval, end) ==
    IF s.lastTimelineBlock THEN s
    ELSE DayOrWeekLoop(el, DayOrWeekSteps(el, s, interval, end, 32), interval, end)

prepareTimelineForDayOrWeek(el, interval, startDate, endDate) ==
    DayOrWeekLoop(el,
        TilerStart(adjustToMiddleOfDay(el.localeDataProvider.timeZone, startDate),
                   isDaylightTime(el.localeDataProvider, startDate),
                   el.firstDayOfRange),
        interval, endDate)

\* The Day and Week tiling with a step of a week.
prepareTimelineForDayOrWeekResolution_WeekStep(el, startDate, endDate) ==
    prepareTimelineForDayOrWeek(el, DAYS_IN_WEEK * DAY_INTERVAL, startDate, endDate)

prepareTimelineForDayOrWeekResolution(el, startDate, endDate) ==
    prepareTimelineForDayOrWeek(el, DAY_INTERVAL, startDate, endDate)

\* One pass of the while loop of prepareTimelineForHour; the registerer is
\* registerHourResolutionBlock (its hour counter is never read).
HourBody(el, s, interval, end) ==
    [AddRowBlocks(el, [s EXCEPT !.c = registerHourResolutionBlock(s.c),
                                !.leafDates = Append(@, s.pos),
                                !.leafWeekdays = Append(@, "Between")],
                  s.pos)
        EXCEPT !.lastTimelineBlock = s.pos + interval > end,
               !.pos = s.pos + interval,
               !.index = @ + 1]

RECURSIVE HourLoop(_, _, _, _)
HourLoop(el, s, interval, end) ==
    IF s.pos <= end THEN HourLoop(el, HourBody(el, s, interval, end), interval, end)
    ELSE s

prepareTimelineForHour(el, interval, startDate, endDate) ==
    HourLoop(el, TilerStart(startDate, FALSE, el.firstHourOfRange), interval, endDate)

prepareTimelineForHourResolution(el, startDate, endDate) ==
    prepareTimelineForHour(el, HOUR_INTERVAL, startDate, endDate)

(***************************************************************************)
(* Pixel arithmetic.  Pixel positions are JavaScript numbers; the model    *)
(* keeps them exact, as fractions [n, d] with d > 0 (IEEE rounding is not  *)
(* modelled).                                                              *)
(***************************************************************************)
RECURSIVE GCD(_, _)
GCD(a, b) == IF b = 0 THEN a ELSE GCD(b, a % b)

Frac(n, d) ==
    LET g == GCD(Abs(n), Abs(d))
        sgn == IF d < 0 THEN -1 ELSE 1
    IN  [n |-> sgn * (n \div g), d |-> sgn * (d \div g)]

FracOf(n) == [n |-> n, d |-> 1]
FracAdd(a, b) == Frac(a.n * b.d + b.n * a.d, a.d * b.d)
FracLt(a, b) == a.n * b.d < b.n * a.d
FracEq(a, b) == a.n * b.d = b.n * a.d

\* Quotient and remainder of x * y by c (x, y >= 0, c > 0), computed bit
\* by bit of y so that no intermediate value exceeds 3 * c.
RECURSIVE MulDivMod(_, _, _)
MulDivMod(x, y, c) ==
    IF y = 0 THEN [q |-> 0, r |-> 0]
    ELSE LET h == MulDivMod(x, y \div 2, c)
             odd == y % 2 = 1
             r2 == 2 * h.r + (IF odd THEN x % c ELSE 0)
             q2 == 2 * h.q + (IF odd THEN x \div c ELSE 0)
         IN  [q |-> q2 + r2 \div c, r |-> r2 % c]

\* Integer part of a * b / c, rounded toward zero (c > 0).
TruncMulDiv(a, b, c) ==
    (IF (a < 0) # (b < 0) THEN -1 ELSE 1) * MulDivMod(Abs(a), Abs(b), c).q

\* Math.round(a / b) for a >= 0, b > 0: halves round up.
RoundDiv(a, b) == (2 * a + b) \div (2 * b)

(***************************************************************************)
(* The element.  The record "this" holds the fields of TimelineElement     *)
(* the model reads; an operator that models a method takes the record and  *)
(* returns the record after the call.  The layout engine is the record     *)
(* env = [parentWidth, measureWidth]: the width of the scroll container    *)
(* and the clientWidth the style sheet gives the measure block.            *)
(***************************************************************************)
\* An undefined Date.
NoDate == 0 - 2000000000

\* The values of the Resolution enum; "None" is an absent resolution and
\* "Other" a value that is none of the three.
Resolutions == {"Hour", "Day", "Week"}

\* Infinity, the value of a division by zero.
Infinity == 2000000000 + 0

NewTimelineElement ==
    [resolution |-> "Day",
     startDateTime |-> NoDate, endDateTime |-> NoDate,
     normalStartDate |-> NoDate, normalEndDate |-> NoDate,
     lastDayOfWeek |-> 0, firstDayOfRange |-> 0, firstHourOfRange |-> 0,
     monthRowVisible |-> TRUE, yearRowVisible |-> TRUE,
     timeZone |-> "Europe/London", firstDayOfWeek |-> 1,
     namesSet |-> FALSE,
     localeDataProvider |-> NoProvider,
     blocksInRange |-> 0, resolutionBlockCount |-> 0,
     firstResBlockCount |-> 0, lastResBlockCount |-> 0,
     firstDay |-> FALSE,
     timelineOverflowingHorizontally |-> FALSE,
     \* resolutionDiv: whether it exists, and the number of its slot elements
     hasResolutionDiv |-> FALSE, childElementCount |-> 0, slots |-> <<>>,
     \* shadowRoot has children
     shadowContent |-> FALSE,
     yearRowData |-> NewBlockRowData, monthRowData |-> NewBlockRowData,
     dayRowData |-> NewBlockRowData,
     dayOrHourWidthPx |-> 0, resBlockMinWidthPx |-> 0, resBlockWidthPx |-> 0,
     minResolutionWidth |-> -1,
     positionLeft |-> 0,
     firstWeekBlockHidden |-> FALSE,
     colLeft |-> 0,
     scrollHandler |-> FALSE,
     \* isConnected; parentNode is an element; scrollContainer is set; the
     \* scroll container holds the scroll handler as a listener
     connected |-> FALSE, parentNode |-> FALSE,
     scrollContainer |-> FALSE, listening |-> FALSE,
     \* a tiling has been stored on the element at least once
     tiledOnce |-> FALSE,
     \* the last updateTimeLine or fillVisibleTimeline ended with an exception
     threw |-> FALSE,
     \* the calls of logIndexOutOfBounds since the last fillVisibleTimeline began
     indexErrors |-> 0,
     \* the leaves of the last tiling, as handed to the registerer
     leafDates |-> <<>>, leafWeekdays |-> <<>>]

\* clear that removes nothing.
clear_KeepsContent(this) == this

\* clear that leaves the year, month and day rows as they are.
clear_KeepsRows(this) == [this EXCEPT !.shadowContent = FALSE]

clear(this) ==
    [this EXCEPT !.shadowContent = FALSE,
                 !.yearRowData = NewBlockRowData,
                 !.monthRowData = NewBlockRowData,
                 !.dayRowData = NewBlockRowData]

resetDateRange(this, startDate, endDate) ==
    [this EXCEPT
       !.startDateTime = startDate,
       !.endDateTime = endDate,
       !.normalStartDate = toNormalDate(this.localeDataProvider, startDate),
       !.normalEndDate = toNormalDate(this.localeDataProvider, endDate),
       !.firstDayOfRange =
           IF @ # 0 THEN @
           ELSE getDayOfWeek(this.localeDataProvider.timeZone, startDate),
       !.firstHourOfRange =
           IF @ # 0 THEN @
           ELSE getHours(this.localeDataProvider.timeZone, startDate)]

\* The measure block's clientWidth, divided by 7 for Week, at least
\* resolutionWeekDayblockWidth.
resolutionWeekDayblockWidth == 4

calculateResolutionMinWidth(this, env) ==
    LET width == IF this.resolution = "Week"
                 THEN env.measureWidth \div DAYS_IN_WEEK
                 ELSE env.measureWidth
    IN  IF width < resolutionWeekDayblockWidth THEN resolutionWeekDayblockWidth ELSE width

isTimelineOverflowingHorizontally(this) == this.timelineOverflowingHorizontally

isFirstResBlockShort(this) ==
    this.firstResBlockCount > 0
      /\ this.resolution = "Week" /\ this.firstResBlockCount < DAYS_IN_WEEK

isLastResBlockShort(this) ==
    this.lastResBlockCount > 0
      /\ this.resolution = "Week" /\ this.lastResBlockCount < DAYS_IN_WEEK

\* ElementUtil.getWidth(resolutionDiv): the row fills its container and is
\* at least its min-width wide; nothing has a width in a tree that is not
\* laid out (the measure block has none).
ResolutionDivLayoutWidth(this, env) ==
    IF env.measureWidth = 0 THEN 0
    ELSE Max(env.parentWidth, this.blocksInRange * this.minResolutionWidth)

\* calculateTimelineWidth: from the left of the first slot to the right of
\* the last; the slots of a timeline that does not overflow fill the row.
calculateTimelineWidth(this, env) ==
    IF ~this.hasResolutionDiv \/ this.childElementCount < 1 THEN 0
    ELSE env.parentWidth

getResolutionDivWidth(this, env) ==
    IF ~isTimelineOverflowingHorizontally(this)
    THEN ResolutionDivLayoutWidth(this, env)
    ELSE this.blocksInRange * this.minResolutionWidth

getResolutionWidth(this, env) ==
    IF ~isTimelineOverflowingHorizontally(this)
    THEN calculateTimelineWidth(this, env)
    ELSE getResolutionDivWidth(this, env)

\* adjustDateRangeByDST that leaves the range as it is.
adjustDateRangeByDST_Uncorrected(this, range) == range

adjustDateRangeByDST(this, range) ==
    With(getDaylightAdjustment(this.localeDataProvider, this.startDateTime),
         LAMBDA dstStart :
    With(getDaylightAdjustment(this.localeDataProvider, this.endDateTime),
         LAMBDA dstEnd :
        IF dstStart > dstEnd THEN range - Abs(dstStart - dstEnd)
        ELSE IF dstEnd > dstStart THEN range + Abs(dstEnd - dstStart)
        ELSE range))

\* left is a fraction; new Date(...) drops the fractional part of the
\* time value.
getDateForLeftPositionNoticeDST(this, env, left, noticeDST) ==
    With(getResolutionWidth(this, env), LAMBDA width :
    With(IF noticeDST
         THEN adjustDateRangeByDST(this, this.normalEndDate - this.normalStartDate)
         ELSE this.normalEndDate - this.normalStartDate, LAMBDA range :
        IF width <= 0 THEN NoDate
        ELSE this.startDateTime + TruncMulDiv(range, left.n, width * left.d)))

getDateForLeftPosition(this, env, left) ==
    getDateForLeftPositionNoticeDST(this, env, left, this.resolution = "Hour")

\* The position measured from the epoch instead of from the range start.
getLeftPositionForDateRange_FromEpoch(date, rangeWidth, rangeStartDate, rangeEndDate) ==
    LET range == rangeEndDate - rangeStartDate
    IN  IF range <= 0 THEN FracOf(0)
        ELSE Frac(rangeWidth * date, range)

\* width / range * (date - rangeStart), as a fraction.
getLeftPositionForDateRange(date, rangeWidth, rangeStartDate, rangeEndDate) ==
    LET range == rangeEndDate - rangeStartDate
    IN  IF range <= 0 THEN FracOf(0)
        ELSE Frac(rangeWidth * (date - rangeStartDate), range)

getLeftPositionForDate(this, env, date) ==
    getLeftPositionForDateRange(date, getResolutionWidth(this, env),
                                this.startDateTime, this.endDateTime)

calculateMinimumResolutionBlockWidth(this) ==
    IF this.resolution = "Week" THEN DAYS_IN_WEEK * this.minResolutionWidth
    ELSE this.minResolutionWidth

updateTimelineOverflowingHorizontally(this, env) ==
    [this EXCEPT !.timelineOverflowingHorizontally =
                    ResolutionDivLayoutWidth(this, env) > env.parentWidth]

\* createTimelineElementsOnVisibleArea without the limit of the visible
\* area: one slot per resolution block.
createTimelineElementsOnVisibleArea_AllBlocks(this, env) ==
    [this EXCEPT !.childElementCount = this.resolutionBlockCount,
                 !.slots = [i \in 1..this.resolutionBlockCount |-> NoDate]]

\* The slot elements are a sequence; a slot holds the date it was last
\* filled for, NoDate when it was never filled.
createTimelineElementsOnVisibleArea(this, env) ==
    LET fit == env.parentWidth \div calculateMinimumResolutionBlockWidth(this)
        blocks == IF isTimelineOverflowingHorizontally(this)
                  THEN (IF this.resolutionBlockCount < fit
                        THEN this.resolutionBlockCount ELSE fit + 2)
                  ELSE this.resolutionBlockCount
    IN  [this EXCEPT !.childElementCount = blocks,
                     !.slots = [i \in 1..blocks |-> NoDate]]

\* while ((blockCount * dayOrHourWidthPx) < clientWidth) dayOrHourWidthPx++
RECURSIVE WidenWhileNarrower(_, _, _)
WidenWhileNarrower(blockCount, dayOrHourWidthPx, clientWidth) ==
    IF blockCount * dayOrHourWidthPx < clientWidth
    THEN WidenWhileNarrower(blockCount, dayOrHourWidthPx + 1, clientWidth)
    ELSE dayOrHourWidthPx

\* Math.round alone, without the loop that widens the block.
calculateDayOrHourResolutionBlockWidthPx_RoundOnly(this, env, blockCount) ==
    IF blockCount = 0 THEN Infinity
    ELSE RoundDiv(ResolutionDivLayoutWidth(this, env), blockCount)

calculateDayOrHourResolutionBlockWidthPx(this, env, blockCount) ==
    IF blockCount = 0 THEN Infinity
    ELSE WidenWhileNarrower(blockCount,
                            RoundDiv(ResolutionDivLayoutWidth(this, env), blockCount),
                            ResolutionDivLayoutWidth(this, env))

calculateActualResolutionBlockWidthPx(this, dayOrHourBlockWidthPx) ==
    IF this.resolution = "Week" /\ dayOrHourBlockWidthPx # Infinity
    THEN DAYS_IN_WEEK * dayOrHourBlockWidthPx
    ELSE dayOrHourBlockWidthPx

\* The first slot of a timeline that does not overflow has its share of
\* the row.
getFirstResolutionElementWidth(this, env) ==
    IF isTimelineOverflowingHorizontally(this)
    THEN (IF isFirstResBlockShort(this)
          THEN this.firstResBlockCount * this.minResolutionWidth
          ELSE this.resBlockMinWidthPx)
    ELSE IF this.resolutionBlockCount = 0 THEN 0
         ELSE env.parentWidth \div this.resolutionBlockCount

getScrollOverflowForRegularResoultionBlock(this, env, positionLeftSnapshot, firstResBlockShort) ==
    LET firstBlockWidth == getFirstResolutionElementWidth(this, env)
        positionLeft == positionLeftSnapshot - (IF firstResBlockShort THEN firstBlockWidth ELSE 0)
        overflow == JsMod(positionLeft, this.resBlockWidthPx)
    IN  [overflow |-> IF firstResBlockShort THEN overflow + firstBlockWidth ELSE overflow,
         firstWeekBlockHidden |-> firstResBlockShort]

getScrollOverflowForShortFirstResolutionBlock(this, env, positionLeftSnapshot) ==
    LET overflow == JsMod(positionLeftSnapshot, getFirstResolutionElementWidth(this, env))
    IN  IF overflow = 0 THEN getFirstResolutionElementWidth(this, env) ELSE overflow

getScrollOverflowForResolutionBlock(this, env, positionLeftSnapshot, left, firstResBlockShort) ==
    IF firstResBlockShort /\ left <= getFirstResolutionElementWidth(this, env)
    THEN [overflow |-> getScrollOverflowForShortFirstResolutionBlock(this, env, positionLeftSnapshot),
          firstWeekBlockHidden |-> FALSE]
    ELSE getScrollOverflowForRegularResoultionBlock(this, env, positionLeftSnapshot, firstResBlockShort)

adjustLeftPositionForDateDetection(this, left) ==
    IF this.resolution = "Week"
    THEN FracAdd(FracOf(left), Frac(this.dayOrHourWidthPx, 2))
    ELSE FracAdd(FracOf(left), Frac(this.resBlockWidthPx, 2))

logIndexOutOfBounds(this) == [this EXCEPT !.indexErrors = @ + 1]

isValidChildIndex(index, childCount) == index >= 0 /\ index < childCount

(***************************************************************************)
(* Filling the slot elements.  A fill loop walks the same dates as the     *)
(* tiler, from the first visible date to the last, and writes slot index.  *)
(***************************************************************************)
\* Whole hours (days) of the normalised visible start after normalStartDate.
IntervalsHidden(this, startDate, interval) ==
    (toNormalDate(this.localeDataProvider, startDate) - this.normalStartDate) \div interval

getFirstHourOfVisibleRange(this, startDate) ==
    IF this.normalStartDate < toNormalDate(this.localeDataProvider, startDate)
    THEN (this.firstHourOfRange + IntervalsHidden(this, startDate, HOUR_INTERVAL)) % 24
    ELSE this.firstHourOfRange

getFirstDayOfVisibleRange(this, startDate) ==
    IF this.normalStartDate < toNormalDate(this.localeDataProvider, startDate)
    THEN JsMod(this.firstDayOfRange - 1 + IntervalsHidden(this, startDate, DAY_INTERVAL), 7) + 1
    ELSE this.firstDayOfRange

fillHourResolutionBlock(this, date, index, hourCounter, lastBlock) ==
    LET filled == [this EXCEPT !.slots[index + 1] = date]
    IN  IF this.firstDay /\ (hourCounter = 24 \/ lastBlock)
        THEN [filled EXCEPT !.firstDay = FALSE, !.firstResBlockCount = index + 1]
        ELSE IF lastBlock
             THEN [filled EXCEPT !.lastResBlockCount =
                                    JsMod(index + 1 - this.firstResBlockCount, 24)]
             ELSE filled

\* One pass of the loop of fillTimelineForHour, fillResolutionBlock included.
FillHourBody(s, interval, end) ==
    LET nextHour == s.pos + interval
        lastTimelineBlock == nextHour > end
        valid == isValidChildIndex(s.index, s.this.childElementCount)
    IN  [pos |-> nextHour, index |-> s.index + 1,
         hourCounter |-> IF valid THEN (s.hourCounter + 1) % 24 ELSE s.hourCounter,
         this |-> IF valid
                  THEN fillHourResolutionBlock(s.this, s.pos, s.index, s.hourCounter,
                                               lastTimelineBlock)
                  ELSE logIndexOutOfBounds(s.this)]

RECURSIVE FillHourLoop(_, _, _)
FillHourLoop(s, interval, end) ==
    IF s.pos <= end THEN FillHourLoop(FillHourBody(s, interval, end), interval, end)
    ELSE s

fillTimelineForHour(this, interval, startDate, endDate) ==
    FillHourLoop([pos |-> startDate, index |-> 0,
                  hourCounter |-> getFirstHourOfVisibleRange(this, startDate),
                  this |-> this], interval, endDate).this

fillTimelineForHourResolution(this, startDate, endDate) ==
    fillTimelineForHour([this EXCEPT !.firstDay = TRUE], HOUR_INTERVAL, startDate, endDate)

\* fillDayBlock that adds a slot element for the date instead of reusing one.
fillDayBlock_NewSlot(s, date) ==
    [s EXCEPT !.this.slots = Append(@, date),
              !.this.childElementCount = @ + 1]

\* fillDayBlock that writes the last slot element when the index is past it.
fillDayBlock_LastSlot(s, date) ==
    IF isValidChildIndex(s.index, s.this.childElementCount)
    THEN [s EXCEPT !.this.slots[s.index + 1] = date]
    ELSE [s EXCEPT !.this = logIndexOutOfBounds(
                                [@ EXCEPT !.slots[s.this.childElementCount] = date])]

fillDayBlock(s, date) ==
    IF isValidChildIndex(s.index, s.this.childElementCount)
    THEN [s EXCEPT !.this.slots[s.index + 1] = date]
    ELSE [s EXCEPT !.this = logIndexOutOfBounds(@)]

fillWeekBlock(s, date, weekday) ==
    LET weekIndex == IF s.index > 0 /\ weekday = "First" THEN s.weekIndex + 1 ELSE s.weekIndex
        s1 == [s EXCEPT !.weekIndex = weekIndex]
    IN  IF s.index = 0 \/ weekday = "First"
        THEN (IF isValidChildIndex(weekIndex, s.this.childElementCount)
              THEN [s1 EXCEPT !.this.slots[weekIndex + 1] = date]
              ELSE [s1 EXCEPT !.this = logIndexOutOfBounds(@)])
        ELSE s1

\* One pass of the loop of fillTimelineForDayOrWeek, fillResolutionBlock
\* included.
FillDayOrWeekBody(s, interval, end) ==
    With(getDSTAdjustedDate(s.this.localeDataProvider, s.previousIsDST, s.pos),
         LAMBDA date :
    With(isDaylightTime(s.this.localeDataProvider, date), LAMBDA isDST :
        [(IF s.this.resolution = "Week"
          THEN fillWeekBlock(s, date, getWeekday(s.this.localeDataProvider,
                                                 s.this.lastDayOfWeek, s.dayCounter))
          ELSE fillDayBlock(s, date))
            EXCEPT !.pos = date + interval,
                   !.index = s.index + 1,
                   !.lastTimelineBlock =
                       getDSTAdjustedDate(s.this.localeDataProvider, isDST,
                                          date + interval) > end,
                   !.previousIsDST = isDST,
                   !.dayCounter = Max((s.dayCounter + 1) % 8, 1)]))

RECURSIVE FillDayOrWeekLoop(_, _, _)
FillDayOrWeekLoop(s, interval, end) ==
    IF ~s.lastTimelineBlock
    THEN FillDayOrWeekLoop(FillDayOrWeekBody(s, interval, end), interval, end)
    ELSE s

fillTimelineForDayOrWeek(this, interval, startDate, endDate) ==
    FillDayOrWeekLoop(
        [pos |-> adjustToMiddleOfDay(this.localeDataProvider.timeZone, startDate),
         index |-> 0, weekIndex |-> 0,
         lastTimelineBlock |-> FALSE,
         previousIsDST |-> isDaylightTime(this.localeDataProvider, startDate),
         dayCounter |-> getFirstDayOfVisibleRange(this, startDate),
         this |-> this], interval, endDate).this

fillTimelineForDayResolution(this, startDate, endDate) ==
    fillTimelineForDayOrWeek(this, DAY_INTERVAL, startDate, endDate)

\* A fill with no locale data provider, or from an undefined date, throws
\* before it changes anything but firstDay.
fillTimelineForResolution(this, startDate, endDate) ==
    IF this.resolution \in {"Day", "Week"}
    THEN (IF this.localeDataProvider = NoProvider \/ startDate = NoDate
          THEN [this EXCEPT !.threw = TRUE]
          ELSE fillTimelineForDayResolution(this, startDate, endDate))
    ELSE IF this.resolution = "Hour"
    THEN (IF this.localeDataProvider = NoProvider \/ startDate = NoDate
          THEN [this EXCEPT !.firstDay = TRUE, !.threw = TRUE]
          ELSE fillTimelineForHourResolution(this, startDate, endDate))
    ELSE this

showResolutionBlocksOnView(this, env) ==
    LET positionLeftSnapshot == this.positionLeft
        scrolled == this.positionLeft > 0 /\ this.resBlockWidthPx > 0
        noticeDst == this.resolution = "Hour"
    IN
    With(getScrollOverflowForResolutionBlock(this, env, positionLeftSnapshot,
             positionLeftSnapshot, isFirstResBlockShort(this)), LAMBDA o :
    With(IF scrolled THEN positionLeftSnapshot - o.overflow ELSE positionLeftSnapshot,
         LAMBDA left :
    With(IF scrolled THEN adjustLeftPositionForDateDetection(this, left)
         ELSE FracOf(positionLeftSnapshot), LAMBDA datePos0 :
    With(IF datePos0.n < 0 THEN FracOf(positionLeftSnapshot) ELSE datePos0,
         LAMBDA datePos :
    With([this EXCEPT !.firstWeekBlockHidden = scrolled /\ o.firstWeekBlockHidden],
         LAMBDA this1 :
    With(getDateForLeftPositionNoticeDST(this1, env,
             FracAdd(datePos, FracOf(env.parentWidth)), noticeDst),
         LAMBDA rightDate :
        IF this.endDateTime = NoDate \/ rightDate = NoDate
        THEN [this1 EXCEPT !.threw = TRUE]
        ELSE [fillTimelineForResolution(this1,
                  getDateForLeftPositionNoticeDST(this1, env, datePos, noticeDst),
                  Min(this.endDateTime, rightDate))
                EXCEPT !.colLeft = left]))))))

showAllResolutionBlocks(this) ==
    fillTimelineForResolution([this EXCEPT !.colLeft = 0],
                              this.startDateTime, this.endDateTime)

fillVisibleTimeline(this, env) ==
    IF isTimelineOverflowingHorizontally(this)
    THEN showResolutionBlocksOnView([this EXCEPT !.threw = FALSE, !.indexErrors = 0], env)
    ELSE showAllResolutionBlocks([this EXCEPT !.threw = FALSE, !.indexErrors = 0])

(***************************************************************************)
(* Rendering.                                                              *)
(***************************************************************************)
updateWidths(this, env) ==
    IF ~this.hasResolutionDiv THEN this
    ELSE
      With(fillVisibleTimeline(
               createTimelineElementsOnVisibleArea(
                   updateTimelineOverflowingHorizontally(
                       [this EXCEPT !.childElementCount = 0, !.slots = <<>>], env),
                   env),
               env), LAMBDA filled :
      With(calculateDayOrHourResolutionBlockWidthPx(filled, env, filled.blocksInRange),
           LAMBDA dayOrHourWidthPx :
          [filled EXCEPT
             !.dayOrHourWidthPx = dayOrHourWidthPx,
             !.resBlockMinWidthPx = IF filled.resolution = "Week"
                                    THEN DAYS_IN_WEEK * filled.minResolutionWidth
                                    ELSE filled.minResolutionWidth,
             !.resBlockWidthPx =
                 calculateActualResolutionBlockWidthPx(filled, dayOrHourWidthPx)]))

\* The scroll handler is created once.  setupScrollContainer (no
\* scrollContainerId) gives the parent element, null when the parent node
\* is not an element; addEventListener on null throws after both fields
\* were assigned.
registerScrollHandler(this) ==
    IF this.scrollHandler THEN this
    ELSE [this EXCEPT !.scrollContainer = this.parentNode,
                      !.scrollHandler = TRUE,
                      !.listening = this.parentNode,
                      !.threw = ~this.parentNode]

connectedCallback(this) ==
    [this EXCEPT !.connected = TRUE,
                 !.listening = @ \/ (this.scrollContainer /\ this.scrollHandler)]

disconnectedCallback(this) ==
    [this EXCEPT !.connected = FALSE,
                 !.listening = @ /\ ~(this.scrollContainer /\ this.scrollHandler)]

\* The counters, rows and leaves a tiler run leaves on the element.
WithTiling(this, s) ==
    [this EXCEPT !.blocksInRange = s.c.blocksInRange,
                 !.resolutionBlockCount = s.c.resolutionBlockCount,
                 !.firstResBlockCount = s.c.firstResBlockCount,
                 !.lastResBlockCount = s.c.lastResBlockCount,
                 !.yearRowData = s.yearRowData,
                 !.monthRowData = s.monthRowData,
                 !.dayRowData = s.dayRowData,
                 !.leafDates = s.leafDates,
                 !.leafWeekdays = s.leafWeekdays,
                 !.tiledOnce = TRUE]

updateTimeLine(this, env, resolution, startDate, endDate, localeDataProvider) ==
    IF localeDataProvider = NoProvider THEN [this EXCEPT !.threw = FALSE]
    ELSE IF resolution = "None" \/ startDate = NoDate \/ endDate = NoDate
    THEN clear([this EXCEPT !.threw = FALSE])
    ELSE
      With(resetDateRange([clear([this EXCEPT !.threw = FALSE]) EXCEPT
                             !.localeDataProvider = localeDataProvider,
                             !.resolution = resolution],
                          startDate, endDate), LAMBDA ranged :
      With([ranged EXCEPT
              !.lastDayOfWeek = LastDayOfWeekOf(localeDataProvider),
              !.namesSet = TRUE,
              !.hasResolutionDiv = TRUE,
              !.childElementCount = 0, !.slots = <<>>,
              !.minResolutionWidth =
                  IF @ < 0 THEN calculateResolutionMinWidth(ranged, env) ELSE @],
           LAMBDA el :
          IF resolution \in {"Day", "Week"}
          THEN registerScrollHandler(updateWidths(
                   [WithTiling(el, prepareTimelineForDayOrWeekResolution(el, startDate, endDate))
                      EXCEPT !.shadowContent = TRUE], env))
          ELSE IF resolution = "Hour"
          THEN registerScrollHandler(updateWidths(
                   [WithTiling([el EXCEPT !.firstDay = TRUE],
                               prepareTimelineForHourResolution(el, startDate, endDate))
                      EXCEPT !.shadowContent = TRUE], env))
          ELSE el))

\* The update cycle after a change of the properties in changedProps.  The
\* first pass that assigns monthNames and weekdayNames changes two observed
\* properties, so that a second cycle follows it.
updated(this, env, resolutionChanged) ==
    LET t0 == IF resolutionChanged THEN [this EXCEPT !.minResolutionWidth = -1] ELSE this
        p == DefaultLocaleDataProvider(t0.timeZone, t0.firstDayOfWeek)
    IN  With(updateTimeLine(t0, env, t0.resolution, t0.startDateTime, t0.endDateTime, p),
             LAMBDA first :
            IF first.namesSet /\ ~this.namesSet
            THEN updateTimeLine(first, env, first.resolution, first.startDateTime,
                                first.endDateTime, p)
            ELSE first)

\* undefined, as an argument of setScrollLeft: what the scroll handler
\* passes for a container element whose scrollLeft is 0 (0 || undefined).
Undefined == NoDate

\* setScrollLeft that keeps the offset of an earlier call.
setScrollLeft_KeepsOffset(this, left) == this

setScrollLeft(this, left) ==
    IF this.positionLeft = left THEN this
    ELSE [this EXCEPT !.positionLeft = IF left = Undefined THEN 0 ELSE left]

(***************************************************************************)
(* The state machine.                                                      *)
(*   this     the element                                                  *)
(*   env      the page: the width of the scroll container and the          *)
(*            clientWidth of the measure block                             *)
(*   timers   the pending setTimeout callbacks of setScrollLeft, oldest    *)
(*            first; an entry is TRUE once updateTimeLine has run since    *)
(*            it was scheduled                                             *)
(*   lastCall the last operation that ran                                  *)
(***************************************************************************)
VARIABLES this, env, timers, lastCall

vars == <<this, env, timers, lastCall>>

\* Bounds.
MaxLen == 3
MaxSpan == 16
MaxPending == 2

ParentWidths == {40, 100}
\* Multiples of 7, so that the Week measure is a whole number of pixels.
MeasureWidths == {21}
ScrollPositions == {0, 30, Undefined}

\* Range starts, as local date and hour: two days before the start of
\* summer time in London, the day before its end, the evening before the
\* end of summer time in Sydney, and a Sunday.
RangeStarts == {<<2020, 3, 27, 0>>, <<2020, 10, 24, 0>>, <<2020, 4, 4, 18>>, <<2019, 12, 29, 0>>}

StartOf(tz, l) == LocalToInstant(tz, l[1], l[2], l[3], l[4])

IntervalOf(resolution) == IF resolution = "Hour" THEN HOUR_INTERVAL ELSE DAY_INTERVAL

\* The end of a range of len intervals after start; len = -1 is an end
\* before the start.  late moves the end to the last second of its interval.
EndOf(resolution, start, len, late) ==
    start + len * IntervalOf(resolution) + (IF late THEN IntervalOf(resolution) - 1 ELSE 0)

\* The range lengths of a first rendering: an end before the start, one
\* leaf, two leaves, a week, a week and a day, and more than two weeks.
SpanLens == {-1, 0, 1, 6, 7, MaxSpan}

\* Scenario A: 2020-04-01T00:00:00 to 2020-12-01T23:59:59, local time.
ScenarioAStart(tz) == LocalToInstant(tz, 2020, 4, 1, 0)
ScenarioAEnd(tz) == LocalToInstant(tz, 2020, 12, 1, 23) + HOUR_INTERVAL - 1

\* Scenario B: n whole days from 2020-04-01T00:00:00 local time, to the
\* last second of the n-th day; no zone changes its offset in them.
MaxDays == 2
ScenarioBEnd(tz, n) == ScenarioAStart(tz) + n * HOURS_IN_DAY * HOUR_INTERVAL - 1

\* What the layout engine measures: nothing has a width while the element
\* is not in the document.
Layout(el, page) ==
    IF el.connected THEN page ELSE [parentWidth |-> 0, measureWidth |-> 0]

\* The element after it was created and appended to its container in the
\* page (connectedCallback ran, no update cycle yet).
ConnectedElement ==
    connectedCallback([NewTimelineElement EXCEPT !.parentNode = TRUE])

Init ==
    /\ env \in [parentWidth : ParentWidths, measureWidth : MeasureWidths]
    /\ this = ConnectedElement
    /\ timers = <<>>
    /\ lastCall = [op |-> "none", stale |-> FALSE]

\* An update cycle: every pending timer is now older than a rebuild.
Rendered(t) ==
    /\ this' = t
    /\ timers' = [i \in DOMAIN timers |-> TRUE]
    /\ lastCall' = [op |-> "updateTimeLine", stale |-> FALSE]
    /\ UNCHANGED env

\* resolution, startDateTime and endDateTime are assigned.
SetDateRange(resolution, start, end) ==
    Rendered(updated([this EXCEPT !.resolution = resolution,
                                  !.startDateTime = start,
                                  !.endDateTime = end],
                     Layout(this, env), resolution # this.resolution))

SetFirstDayOfWeek(firstDayOfWeek) ==
    /\ firstDayOfWeek # this.firstDayOfWeek
    /\ Rendered(updated([this EXCEPT !.firstDayOfWeek = firstDayOfWeek],
                        Layout(this, env), FALSE))

SetRowsVisible(yearRowVisible, monthRowVisible) ==
    /\ <<yearRowVisible, monthRowVisible>> # <<this.yearRowVisible, this.monthRowVisible>>
    /\ Rendered(updated([this EXCEPT !.yearRowVisible = yearRowVisible,
                                     !.monthRowVisible = monthRowVisible],
                        Layout(this, env), FALSE))

\* firstDayOfRange is not an observed property: no update cycle.
SetFirstDayOfRange(day) ==
    /\ day # this.firstDayOfRange
    /\ this' = [this EXCEPT !.firstDayOfRange = day]
    /\ UNCHANGED <<env, timers, lastCall>>

\* A call that does not return early sets a timeout; lastCall keeps the
\* argument.
SetScrollLeft(left) ==
    /\ Len(timers) < MaxPending
    /\ this' = setScrollLeft(this, left)
    /\ timers' = IF this.positionLeft = left THEN timers ELSE Append(timers, FALSE)
    /\ lastCall' = [op |-> "setScrollLeft", stale |-> FALSE, left |-> left]
    /\ UNCHANGED env

\* The oldest pending timeout expires.
LazyResolutionPaint ==
    /\ timers # <<>>
    /\ this' = fillVisibleTimeline(this, Layout(this, env))
    /\ timers' = Tail(timers)
    /\ lastCall' = [op |-> "fillVisibleTimeline", stale |-> Head(timers)]
    /\ UNCHANGED env

SetTimeZone(timeZone) ==
    /\ timeZone # this.timeZone
    /\ Rendered(updated([this EXCEPT !.timeZone = timeZone], Layout(this, env), FALSE))

\* Scrolling and rebuilding a short timeline in the default zone.  The
\* Hour ranges are not empty.
Next ==
    \/ \E resolution \in Resolutions, len \in {-1, 0, 1, MaxLen} :
          /\ resolution = "Hour" => len >= 0
          /\ LET start == StartOf(this.timeZone, <<2020, 10, 24, 0>>)
             IN  SetDateRange(resolution, start, EndOf(resolution, start, len, FALSE))
    \/ \E left \in ScrollPositions : SetScrollLeft(left)
    \/ LazyResolutionPaint

Spec == Init /\ [][Next]_vars

\* The first rendering of an element whose properties were assigned one
\* by one, in the wider container.
InitTiler ==
    /\ env \in [parentWidth : {100}, measureWidth : MeasureWidths]
    /\ this = ConnectedElement
    /\ timers = <<>>
    /\ lastCall = [op |-> "none", stale |-> FALSE]

NextTiler ==
    \/ this.startDateTime = NoDate /\ \E tz \in TimeZones : SetTimeZone(tz)
    \/ this.startDateTime = NoDate /\ \E f \in {0, 1} : SetFirstDayOfWeek(f)
    \/ this.startDateTime = NoDate /\ \E y, m \in BOOLEAN : SetRowsVisible(y, m)
    \/ this.startDateTime = NoDate /\ \E day \in {4} : SetFirstDayOfRange(day)
    \/ this.startDateTime = NoDate
         /\ \E resolution \in Resolutions, l \in RangeStarts, len \in SpanLens, late \in BOOLEAN :
               LET start == StartOf(this.timeZone, l)
               IN  SetDateRange(resolution, start, EndOf(resolution, start, len, late))
    \/ this.startDateTime = NoDate
         /\ this.yearRowVisible /\ this.monthRowVisible /\ this.firstDayOfRange = 0
         /\ SetDateRange("Day", ScenarioAStart(this.timeZone), ScenarioAEnd(this.timeZone))
    \/ this.startDateTime = NoDate
         /\ this.yearRowVisible /\ this.monthRowVisible /\ this.firstDayOfRange = 0
         /\ \E n \in 1..MaxDays :
               SetDateRange("Hour", ScenarioAStart(this.timeZone),
                            ScenarioBEnd(this.timeZone, n))

SpecTiler == InitTiler /\ [][NextTiler]_vars

\* The element shows a tiling of its date range.
Tiled == this.shadowContent

(***************************************************************************)
(* Mounting: the element is created outside the document, inserted and     *)
(* removed, and updateTimeLine is called at any of these moments.          *)
(***************************************************************************)
InitMount ==
    /\ env \in [parentWidth : {100}, measureWidth : MeasureWidths]
    /\ this = NewTimelineElement
    /\ timers = <<>>
    /\ lastCall = [op |-> "none", stale |-> FALSE]

\* The element is inserted into the page, under an element.
ConnectedCallback ==
    /\ ~this.connected
    /\ this' = connectedCallback([this EXCEPT !.parentNode = TRUE])
    /\ lastCall' = [op |-> "connectedCallback", stale |-> FALSE]
    /\ UNCHANGED <<env, timers>>

\* The element leaves the page: it is removed from its parent, or it stays
\* in a subtree that is removed.
DisconnectedCallback(keepsParent) ==
    /\ this.connected
    /\ this' = disconnectedCallback([this EXCEPT !.parentNode = keepsParent])
    /\ lastCall' = [op |-> "disconnectedCallback", stale |-> FALSE]
    /\ UNCHANGED <<env, timers>>

\* An explicit call of updateTimeLine with the element's provider; lastCall
\* keeps its arguments.
UpdateTimeLine(resolution, start, end) ==
    /\ this' = updateTimeLine(this, Layout(this, env), resolution, start, end,
                              DefaultLocaleDataProvider(this.timeZone, this.firstDayOfWeek))
    /\ timers' = [i \in DOMAIN timers |-> TRUE]
    /\ lastCall' = [op |-> "updateTimeLine", stale |-> FALSE,
                    resolution |-> resolution, startDate |-> start, endDate |-> end]
    /\ UNCHANGED env

\* The starts of the ranges a mounted element is given: a Saturday and the
\* Monday after it.
MountStarts == {<<2020, 10, 24, 0>>, <<2020, 10, 26, 0>>}

NextMount ==
    \/ ConnectedCallback
    \/ \E keepsParent \in BOOLEAN : DisconnectedCallback(keepsParent)
    \/ \E resolution \in Resolutions \cup {"None", "Other"}, l \in MountStarts, len \in {1} :
          /\ l # <<2020, 10, 24, 0>> => resolution = "Week"
          /\ UpdateTimeLine(resolution, StartOf(this.timeZone, l),
                            EndOf(resolution, StartOf(this.timeZone, l), len, FALSE))
    \/ \E resolution \in {"Day"}, absent \in {"start", "end"} :
          UpdateTimeLine(resolution,
                         IF absent = "start" THEN NoDate
                         ELSE StartOf(this.timeZone, <<2020, 10, 24, 0>>),
                         IF absent = "end" THEN NoDate
                         ELSE StartOf(this.timeZone, <<2020, 10, 24, 0>>))

SpecMount == InitMount /\ [][NextMount]_vars

(***************************************************************************)
(* Resizing: the scroll container changes its width between the rebuild    *)
(* that made the slot elements and a deferred refill.                      *)
(***************************************************************************)
\* The widths of the container: narrower than a Day or Week block at
\* first, then wider.
ResizeWidths == {20, 100}

InitResize ==
    /\ env \in [parentWidth : {20}, measureWidth : MeasureWidths]
    /\ this = ConnectedElement
    /\ timers = <<>>
    /\ lastCall = [op |-> "none", stale |-> FALSE]

\* The container gets another width; nothing observes it.
Resize(width) ==
    /\ width # env.parentWidth
    /\ env' = [env EXCEPT !.parentWidth = width]
    /\ lastCall' = [op |-> "resize", stale |-> FALSE]
    /\ UNCHANGED <<this, timers>>

\* The date range is assigned once.
NextResize ==
    \/ this.startDateTime = NoDate
         /\ \E resolution \in Resolutions, len \in {MaxLen, MaxSpan} :
          LET start == StartOf(this.timeZone, <<2020, 10, 24, 0>>)
          IN  SetDateRange(resolution, start, EndOf(resolution, start, len, FALSE))
    \/ \E left \in ScrollPositions : SetScrollLeft(left)
    \/ LazyResolutionPaint
    \/ \E width \in ResizeWidths : Resize(width)

SpecResize == InitResize /\ [][NextResize]_vars

(***************************************************************************)
(* The DST stepper alone: getDSTAdjustedDate of the element, applied to a  *)
(* boundary with the provider of a zone.                                   *)
(***************************************************************************)
MaxStep == 8

\* Boundaries every six hours from the day before each transition of 2020.
StepperDates ==
    {base + k * 6 * HOUR_INTERVAL :
        base \in {UTC(2020, 3, 28, 0), UTC(2020, 10, 24, 0),
                  UTC(2020, 4, 4, 0), UTC(2020, 10, 3, 0)},
        k \in 0..MaxStep}

\* The arguments are drawn by the initial state.
InitStepper ==
    /\ env \in [parentWidth : ParentWidths, measureWidth : MeasureWidths]
    /\ this = NewTimelineElement
    /\ timers = <<>>
    /\ lastCall \in [op : {"args"}, stale : {FALSE}, timeZone : TimeZones,
                     previousIsDST : BOOLEAN, zonedDate : StepperDates]

GetDSTAdjustedDate ==
    /\ lastCall.op = "args"
    /\ lastCall' = [op |-> "getDSTAdjustedDate", stale |-> FALSE,
                    timeZone |-> lastCall.timeZone,
                    previousIsDST |-> lastCall.previousIsDST,
                    zonedDate |-> lastCall.zonedDate,
                    result |-> getDSTAdjustedDate(
                                  DefaultLocaleDataProvider(lastCall.timeZone,
                                                            this.firstDayOfWeek),
                                  lastCall.previousIsDST, lastCall.zonedDate)]
    /\ UNCHANGED <<this, env, timers>>

NextStepper == GetDSTAdjustedDate

SpecStepper == InitStepper /\ [][NextStepper]_vars

(***************************************************************************)
(* Positions: the two conversions on a rendered timeline, and              *)
(* getLeftPositionForDateRange on numbers.                                 *)
(***************************************************************************)
\* Half intervals of the dates asked for, counted from the range start.
MaxHalves == 8

\* getDateForLeftPosition(getLeftPositionForDate(date)).
RoundTrip(date) ==
    /\ Tiled
    /\ LET left == getLeftPositionForDate(this, Layout(this, env), date)
       IN  lastCall' = [op |-> "roundTrip", stale |-> FALSE,
                        date |-> date, left |-> left,
                        result |-> getDateForLeftPosition(this, Layout(this, env), left)]
    /\ UNCHANGED <<this, env, timers>>

NextPosition ==
    \/ this.startDateTime = NoDate /\ \E tz \in TimeZones : SetTimeZone(tz)
    \/ this.startDateTime = NoDate
         /\ \E resolution \in Resolutions, l \in {<<2020, 3, 27, 0>>, <<2020, 10, 24, 0>>},
               len \in {0, MaxLen}, late \in BOOLEAN :
               LET start == StartOf(this.timeZone, l)
               IN  SetDateRange(resolution, start, EndOf(resolution, start, len, late))
    \/ \E k \in 0..MaxHalves :
          /\ this.startDateTime # NoDate
          /\ this.startDateTime + k * (IntervalOf(this.resolution) \div 2) <= this.endDateTime
          /\ RoundTrip(this.startDateTime + k * (IntervalOf(this.resolution) \div 2))
    \/ this.startDateTime # NoDate /\ RoundTrip(this.endDateTime)

SpecPosition == Init /\ [][NextPosition]_vars

\* getLeftPositionForDateRange on numbers: dates 0..MaxDate and a few widths,
\* drawn by the initial state.
MaxDate == 4
PositionWidths == {0, 40, 100}

InitRange ==
    /\ env \in [parentWidth : ParentWidths, measureWidth : MeasureWidths]
    /\ this = NewTimelineElement
    /\ timers = <<>>
    /\ lastCall \in [op : {"args"}, stale : {FALSE},
                     date : 0..MaxDate, date2 : 0..MaxDate,
                     rangeWidth : PositionWidths,
                     rangeStartDate : 0..MaxDate, rangeEndDate : 0..MaxDate]

\* getLeftPositionForDateRange of two dates on the same range, and of the
\* two ends of the range.
GetLeftPositionForDateRange ==
    /\ lastCall.op = "args"
    /\ LET left(date) == getLeftPositionForDateRange(date, lastCall.rangeWidth,
                             lastCall.rangeStartDate, lastCall.rangeEndDate)
       IN  lastCall' = [lastCall EXCEPT !.op = "getLeftPositionForDateRange"]
                          @@ [left |-> left(lastCall.date),
                              left2 |-> left(lastCall.date2),
                              leftOfStart |-> left(lastCall.rangeStartDate),
                              leftOfEnd |-> left(lastCall.rangeEndDate)]
    /\ UNCHANGED <<this, env, timers>>

NextRange == GetLeftPositionForDateRange

SpecRange == InitRange /\ [][NextRange]_vars

(***************************************************************************)
(* Properties of the tiling.                                               *)
(***************************************************************************)
RECURSIVE SumOfLengths(_)
SumOfLengths(m) == IF m = <<>> THEN 0 ELSE Head(m).val + SumOfLengths(Tail(m))

LengthsOf(rowData) == [i \in DOMAIN rowData.blockLength |-> rowData.blockLength[i].val]

\* C1: after updateTimeLine with end >= start, the block lengths of every
\* rendered aggregation row (year, month, and day for Hour resolution) sum
\* to blocksInRange.
C1_RowLengthsSumToBlocksInRange ==
    (Tiled /\ this.endDateTime >= this.startDateTime) =>
        /\ this.yearRowVisible =>
              SumOfLengths(this.yearRowData.blockLength) = this.blocksInRange
        /\ this.monthRowVisible =>
              SumOfLengths(this.monthRowData.blockLength) = this.blocksInRange
        /\ isDayRowVisible(this) =>
              SumOfLengths(this.dayRowData.blockLength) = this.blocksInRange

\* C1 witness: an Hour range with both rows visible whose day row has two
\* runs of more than one leaf.
C1_Witness ==
    /\ Tiled /\ this.endDateTime >= this.startDateTime
    /\ this.resolution = "Hour" /\ this.yearRowVisible /\ this.monthRowVisible
    /\ Len(this.dayRowData.blockLength) = 2
    /\ this.blocksInRange > 2

C3_EmptyRangeIsEmpty ==
    (Tiled /\ this.endDateTime < this.startDateTime) =>
        /\ this.blocksInRange = 0
        /\ this.leafDates = <<>>
        /\ size(this.yearRowData) = 0 /\ size(this.monthRowData) = 0
        /\ size(this.dayRowData) = 0

\* The element shows Scenario A.
ScenarioA ==
    /\ Tiled /\ this.resolution = "Day"
    /\ this.startDateTime = ScenarioAStart(this.timeZone)
    /\ this.endDateTime = ScenarioAEnd(this.timeZone)
    /\ this.yearRowVisible /\ this.monthRowVisible

\* C4: Scenario A has 245 leaves, a year row of one entry of length 245 and
\* a month row of the nine lengths 30, 31, 30, 31, 31, 30, 31, 30, 1, also
\* in a zone with a DST transition inside the range.
C4_ScenarioA ==
    ScenarioA =>
        /\ this.blocksInRange = 245
        /\ LengthsOf(this.yearRowData) = <<245>>
        /\ LengthsOf(this.monthRowData) = <<30, 31, 30, 31, 31, 30, 31, 30, 1>>

\* C4 witness: Scenario A in London, first day of week Sunday.
C4_Witness ==
    /\ ScenarioA /\ this.timeZone = "Europe/London"
    /\ getFirstDayOfWeek(this.localeDataProvider) = 1
    /\ this.blocksInRange = 245

\* C6: every leaf of a Day or Week tiling has the local wall-clock hour of
\* the first leaf.
C6_LeavesKeepLocalHour ==
    (Tiled /\ this.resolution \in {"Day", "Week"}) =>
        \A i \in DOMAIN this.leafDates :
            getHours(this.timeZone, this.leafDates[i])
              = getHours(this.timeZone, this.leafDates[1])

(***************************************************************************)
(* Properties of the stepper and of the positions.                         *)
(***************************************************************************)
\* C5: in a zone of DST magnitude M > 0 the stepper returns b + M when the
\* previous leaf was DST and the boundary b is not, b - M when the previous
\* leaf was not DST and b is, and b otherwise.
C5_StepperRule ==
    (lastCall.op = "getDSTAdjustedDate" /\ DstSaving(lastCall.timeZone) > 0) =>
        LET p == DefaultLocaleDataProvider(lastCall.timeZone, this.firstDayOfWeek)
            b == lastCall.zonedDate
            M == DstSaving(lastCall.timeZone)
            isDST == isDaylightTime(p, b)
        IN  lastCall.result =
               IF lastCall.previousIsDST /\ ~isDST THEN b + M
               ELSE IF ~lastCall.previousIsDST /\ isDST THEN b - M
               ELSE b

\* C7: for a date d of [startDateTime, endDateTime],
\* getDateForLeftPosition(getLeftPositionForDate(d)) is d to within one
\* unit of time.
C7_RoundTrip ==
    (lastCall.op = "roundTrip"
       /\ this.startDateTime <= lastCall.date /\ lastCall.date <= this.endDateTime) =>
        /\ lastCall.result # NoDate
        /\ Abs(lastCall.result - lastCall.date) <= 1

\* C8: getLeftPositionForDateRange is width * (date - rangeStart) /
\* (rangeEnd - rangeStart) when rangeEnd > rangeStart, so that rangeStart
\* maps to 0, rangeEnd to width and the result does not decrease with the
\* date; it is 0 when rangeEnd - rangeStart <= 0.
C8_LeftPositionForDateRange ==
    lastCall.op = "getLeftPositionForDateRange" =>
        IF lastCall.rangeEndDate > lastCall.rangeStartDate
        THEN /\ lastCall.left.n * (lastCall.rangeEndDate - lastCall.rangeStartDate)
                  = lastCall.left.d * lastCall.rangeWidth
                      * (lastCall.date - lastCall.rangeStartDate)
             /\ lastCall.leftOfStart = FracOf(0)
             /\ lastCall.leftOfEnd = FracOf(lastCall.rangeWidth)
             /\ lastCall.date <= lastCall.date2 => ~FracLt(lastCall.left2, lastCall.left)
        ELSE /\ lastCall.left = FracOf(0)
             /\ lastCall.leftOfStart = FracOf(0) /\ lastCall.leftOfEnd = FracOf(0)

\* C8 witness: a date strictly inside a range of positive width and length,
\* at a position that is not a whole number of pixels.
C8_Witness ==
    /\ lastCall.op = "getLeftPositionForDateRange"
    /\ lastCall.rangeStartDate < lastCall.date /\ lastCall.date < lastCall.rangeEndDate
    /\ lastCall.date < lastCall.date2
    /\ lastCall.rangeWidth > 0 /\ lastCall.left.d > 1

(***************************************************************************)
(* Properties of the deferred refill.                                      *)
(***************************************************************************)
\* C9: at every moment at most one deferred refill is pending (a new
\* setScrollLeft cancels the pending one), so that a burst of offset
\* changes runs fillVisibleTimeline once.
C9_AtMostOnePendingRefill == Len(timers) <= 1

\* C10: a deferred refill that was pending when updateTimeLine ran does
\* not run fillVisibleTimeline afterwards.
C10_RebuildSupersedesPendingRefill ==
    ~(lastCall.op = "fillVisibleTimeline" /\ lastCall.stale)

(***************************************************************************)
(* Properties of mounting.                                                 *)
(***************************************************************************)
\* C11: the scroll handler is never registered on the scroll container
\* while the element is disconnected, and it is registered whenever the
\* element is connected and a tiling has succeeded before.
C11_MountUnmountSymmetry ==
    /\ ~this.connected => ~this.listening
    /\ (this.connected /\ this.tiledOnce) => this.listening

(***************************************************************************)
(* Properties of the slot elements.                                        *)
(***************************************************************************)
\* C12: a setScrollLeft call and a deferred refill leave the number of slot
\* elements of resolutionDiv as the last updateWidths made it: no slot is
\* created and none is removed.
C12_RefillKeepsThePool ==
    [][lastCall'.op \in {"setScrollLeft", "fillVisibleTimeline"}
         => /\ this'.childElementCount = this.childElementCount
            /\ Len(this'.slots) = Len(this.slots)
            /\ Len(this'.slots) = this'.childElementCount]_vars

\* A deferred refill has run at a scrolled position of an overflowing Day
\* timeline and has written its slots.
C12_Witness ==
    /\ lastCall.op = "fillVisibleTimeline"
    /\ this.resolution = "Day"
    /\ this.timelineOverflowingHorizontally
    /\ this.positionLeft > 0
    /\ this.childElementCount > 0
    /\ \E i \in DOMAIN this.slots : this.slots[i] # NoDate

\* The number of minimum-width resolution blocks that fit in the container.
FitOf(el, page) == page.parentWidth \div calculateMinimumResolutionBlockWidth(el)

\* C13: when the timeline overflows its container, resolutionDiv holds at
\* most floor(container width / minimum resolution block width) + 2 slot
\* elements, whatever the number of leaves.
C13_VirtualizationBound ==
    (Tiled /\ this.timelineOverflowingHorizontally)
        => this.childElementCount <= FitOf(this, Layout(this, env)) + 2

\* An overflowing Day timeline of MaxSpan + 1 leaves whose slot elements
\* are fewer than its resolution blocks.
C13_Witness ==
    /\ Tiled /\ this.timelineOverflowingHorizontally
    /\ this.resolution = "Day"
    /\ this.blocksInRange = MaxSpan + 1
    /\ this.childElementCount = FitOf(this, Layout(this, env)) + 2
    /\ this.childElementCount < this.resolutionBlockCount

\* C14: a timeline that does not overflow has one slot element per
\* resolution block; one that overflows has
\* min(floor(container width / minimum resolution block width) + 2,
\* resolutionBlockCount) slot elements, so never more than it has
\* resolution blocks.
C14_PoolSize ==
    Tiled => this.childElementCount =
                IF this.timelineOverflowingHorizontally
                THEN Min(FitOf(this, Layout(this, env)) + 2, this.resolutionBlockCount)
                ELSE this.resolutionBlockCount

(***************************************************************************)
(* Properties of updateTimeLine with arguments it cannot render.           *)
(***************************************************************************)
\* The last call was updateTimeLine without a resolution, a start or an end.
AbsentArgument ==
    /\ lastCall.op = "updateTimeLine"
    /\ lastCall.resolution = "None" \/ lastCall.startDate = NoDate
                                    \/ lastCall.endDate = NoDate

\* The last call was updateTimeLine with a resolution that is none of Hour,
\* Day and Week.
UnsupportedResolution ==
    /\ lastCall.op = "updateTimeLine"
    /\ lastCall.resolution \notin Resolutions \cup {"None"}

\* C15: updateTimeLine without a resolution, a start or an end, or with an
\* unsupported resolution, leaves the shadow root without content and the
\* year, month and day rows empty, and does not throw.
C15_ConfigurationErrorsFailSoft ==
    (AbsentArgument \/ UnsupportedResolution)
        => /\ ~this.shadowContent
           /\ size(this.yearRowData) = 0
           /\ size(this.monthRowData) = 0
           /\ size(this.dayRowData) = 0
           /\ ~this.threw

\* A timeline had been tiled before the call with an unsupported resolution.
C15_Witness ==
    UnsupportedResolution /\ this.tiledOnce /\ this.connected /\ ~this.shadowContent

\* The fields of the element, without the outcome of the last call.
FieldsOf(el) == [el EXCEPT !.threw = FALSE]

\* C16: updateTimeLine without a resolution, a start or an end leaves the
\* element as it was before the call: content, rows, counters, render
\* state and slot elements.
C16_AbsentArgumentIsNoOp ==
    [][(lastCall'.op = "updateTimeLine"
        /\ (lastCall'.resolution = "None" \/ lastCall'.startDate = NoDate
                                           \/ lastCall'.endDate = NoDate))
         => FieldsOf(this') = FieldsOf(this)]_vars

\* C16, as the code has it: such a call clears the shadow root and the
\* year, month and day rows, and leaves everything else on the element as
\* it was.
C16_AbsentArgumentOnlyClears ==
    [][(lastCall'.op = "updateTimeLine"
        /\ (lastCall'.resolution = "None" \/ lastCall'.startDate = NoDate
                                           \/ lastCall'.endDate = NoDate))
         => FieldsOf(this') = [FieldsOf(this) EXCEPT
                                   !.shadowContent = FALSE,
                                   !.yearRowData = NewBlockRowData,
                                   !.monthRowData = NewBlockRowData,
                                   !.dayRowData = NewBlockRowData]]_vars

\* A rendered timeline was cleared by a call without an argument; its
\* counters and slot elements are still there.
C16_Witness ==
    /\ AbsentArgument
    /\ ~this.shadowContent /\ size(this.dayRowData) = 0
    /\ this.blocksInRange > 0 /\ this.childElementCount > 0

(***************************************************************************)
(* Properties of a refill that meets an index outside the slot elements.   *)
(***************************************************************************)
\* The same refill of an element with a slot element for every leaf.
RefillWithSlotsForAll(el, page) ==
    fillVisibleTimeline([el EXCEPT !.childElementCount = el.blocksInRange + 2,
                                   !.slots = [i \in 1..(el.blocksInRange + 2) |-> NoDate]],
                        page)

C18_SetScrollLeftIdempotent ==
    [][lastCall'.op = "setScrollLeft"
         => /\ lastCall'.left = this.positionLeft
                 => (this' = this /\ timers' = timers)
            /\ (lastCall.op = "setScrollLeft" /\ lastCall.left = lastCall'.left)
                 => (this' = this /\ timers' = timers)]_vars

(***************************************************************************)
(* Properties of the resolution block counters.                            *)
(***************************************************************************)
\* The leaves of the last tiling that open a week block: the first leaf and
\* every leaf on the first day of the week.
WeekOpeners ==
    {i \in DOMAIN this.leafWeekdays : i = 1 \/ this.leafWeekdays[i] = "First"}

C20_DayFirstShortLength ==
    (/\ Tiled /\ this.resolution = "Day"
     /\ getDayOfWeek(this.timeZone, this.startDateTime) = 3
     /\ getFirstDayOfWeek(this.localeDataProvider) = 1
     /\ this.blocksInRange >= 4)
        => /\ this.firstResBlockCount \in 1..5
           /\ this.firstResBlockCount = 4

(***************************************************************************)
(* Properties of the Hour tiling.                                          *)
(***************************************************************************)
\* The element shows n whole days of Scenario B at Hour resolution.
ScenarioB(n) ==
    /\ Tiled /\ this.resolution = "Hour"
    /\ this.startDateTime = ScenarioAStart(this.timeZone)
    /\ this.endDateTime = ScenarioBEnd(this.timeZone, n)

\* C21: an Hour rendering of n whole days from a local midnight has 24 * n
\* leaves, a day row of n entries of length 24, and firstResBlockCount =
\* lastResBlockCount = 0 after the rendering and its first fill.
C21_ScenarioB ==
    \A n \in 1..MaxDays :
        ScenarioB(n) =>
            /\ this.blocksInRange = HOURS_IN_DAY * n
            /\ LengthsOf(this.dayRowData) = [i \in 1..n |-> HOURS_IN_DAY]
            /\ this.firstResBlockCount = 0
            /\ this.lastResBlockCount = 0

(***************************************************************************)
(* Properties of the weekday markers.                                      *)
(***************************************************************************)
\* The leaves i .. i + 6 of the last tiling with the marker m.
MarkedIn(i, m) == {j \in i..(i + 6) : this.leafWeekdays[j] = m}

\* C22: the provider of an element configured with a first day of week in
\* 1..7 returns that value, and in any 7 consecutive leaves of a tiling
\* exactly one is marked First and exactly one Last, the Last one just
\* before the First one.
C22_WeekdayMarkers ==
    /\ this.firstDayOfWeek \in 1..7
         => getFirstDayOfWeek(DefaultLocaleDataProvider(this.timeZone, this.firstDayOfWeek))
               = this.firstDayOfWeek
    /\ (Tiled /\ this.resolution \in {"Day", "Week"})
         => /\ \A i \in 1..(Len(this.leafWeekdays) - 6) :
                  /\ Cardinality(MarkedIn(i, "First")) = 1
                  /\ Cardinality(MarkedIn(i, "Last")) = 1
            /\ \A i \in 2..Len(this.leafWeekdays) :
                  this.leafWeekdays[i] = "First" => this.leafWeekdays[i - 1] = "Last"

(***************************************************************************)
(* Properties of the DST resolver, on the dates the stepper is given.      *)
(***************************************************************************)
StepperProvider == DefaultLocaleDataProvider(lastCall.timeZone, this.firstDayOfWeek)

JanOffsetOf(p, d) == getTimezoneOffset(p, JanSample(p, d))
JulOffsetOf(p, d) == getTimezoneOffset(p, JulSample(p, d))

\* C23: in a year whose January 1 and July 1 offsets are equal the
\* adjustment of every date is 0 and no date is daylight time; in a year
\* whose samples differ the adjustment of every date is
\* |julyOffset - januaryOffset|.
C23_MagnitudeForEveryDate ==
    lastCall.op = "getDSTAdjustedDate" =>
        IF JanOffsetOf(StepperProvider, lastCall.zonedDate)
             = JulOffsetOf(StepperProvider, lastCall.zonedDate)
        THEN /\ getDaylightAdjustment(StepperProvider, lastCall.zonedDate) = 0
             /\ ~isDaylightTime(StepperProvider, lastCall.zonedDate)
        ELSE getDaylightAdjustment(StepperProvider, lastCall.zonedDate)
               = Abs(JulOffsetOf(StepperProvider, lastCall.zonedDate)
                       - JanOffsetOf(StepperProvider, lastCall.zonedDate))

\* C23 (amended): with equal samples the adjustment is 0 and the date is
\* not daylight time; with different samples the adjustment is
\* |julyOffset - januaryOffset| for a date whose own offset is below the
\* larger sample, and 0 for every other date of the year.
C23_MagnitudeBelowTheLargerSample ==
    lastCall.op = "getDSTAdjustedDate" =>
        IF JanOffsetOf(StepperProvider, lastCall.zonedDate)
             = JulOffsetOf(StepperProvider, lastCall.zonedDate)
        THEN /\ getDaylightAdjustment(StepperProvider, lastCall.zonedDate) = 0
             /\ ~isDaylightTime(StepperProvider, lastCall.zonedDate)
        ELSE getDaylightAdjustment(StepperProvider, lastCall.zonedDate)
               = IF getTimezoneOffset(StepperProvider, lastCall.zonedDate)
                      < Max(JanOffsetOf(StepperProvider, lastCall.zonedDate),
                            JulOffsetOf(StepperProvider, lastCall.zonedDate))
                 THEN Abs(JulOffsetOf(StepperProvider, lastCall.zonedDate)
                            - JanOffsetOf(StepperProvider, lastCall.zonedDate))
                 ELSE 0

\* A date of a year whose samples differ, with the larger sample as its own
\* offset: the adjustment is 0 there.
C23_Witness ==
    /\ lastCall.op = "getDSTAdjustedDate"
    /\ JanOffsetOf(StepperProvider, lastCall.zonedDate)
         # JulOffsetOf(StepperProvider, lastCall.zonedDate)
    /\ getTimezoneOffset(StepperProvider, lastCall.zonedDate)
         = Max(JanOffsetOf(StepperProvider, lastCall.zonedDate),
               JulOffsetOf(StepperProvider, lastCall.zonedDate))
    /\ getDaylightAdjustment(StepperProvider, lastCall.zonedDate) = 0

\* C24: isDaylightTime is true exactly for the dates in the clock-advanced
\* period of the zone and false in standard time, for a zone advanced in
\* July and for a zone advanced in January.
C24_DaylightTimeIsSummerTime ==
    lastCall.op = "getDSTAdjustedDate" =>
        isDaylightTime(StepperProvider, lastCall.zonedDate)
          = InSummerTime(lastCall.timeZone, lastCall.zonedDate)

(***************************************************************************)
(* Properties of the pixel widths.                                         *)
(***************************************************************************)
MaxBlockCount == 8

\* w is the smallest integer with n * w >= W.
IsCeilingOf(w, W, n) == n * w >= W /\ n * (w - 1) < W

\* C25: for the width W of the resolution row and every block count
\* n >= 1, calculateDayOrHourResolutionBlockWidthPx(n) is the smallest
\* integer w with n * w >= W; the width a render stores is that value for
\* the blocks of the range.
C25_FixedPixelWidth ==
    /\ \A n \in 1..MaxBlockCount :
          IsCeilingOf(calculateDayOrHourResolutionBlockWidthPx(this, Layout(this, env), n),
                      ResolutionDivLayoutWidth(this, Layout(this, env)), n)
    /\ (Tiled /\ lastCall.op = "updateTimeLine" /\ this.blocksInRange >= 1) =>
          IsCeilingOf(this.dayOrHourWidthPx,
                      ResolutionDivLayoutWidth(this, Layout(this, env)),
                      this.blocksInRange)

\* A render whose row width is not a multiple of the block count, with
\* Math.round rounding down: the loop widens the block.
C25_Witness ==
    /\ Tiled /\ lastCall.op = "updateTimeLine" /\ this.blocksInRange >= 1
    /\ ResolutionDivLayoutWidth(this, Layout(this, env)) % this.blocksInRange # 0
    /\ RoundDiv(ResolutionDivLayoutWidth(this, Layout(this, env)), this.blocksInRange)
         * this.blocksInRange < ResolutionDivLayoutWidth(this, Layout(this, env))
    /\ this.dayOrHourWidthPx
         = RoundDiv(ResolutionDivLayoutWidth(this, Layout(this, env)),
                    this.blocksInRange) + 1

(***************************************************************************)
(* The tiling result and its writers.                                      *)
(***************************************************************************)
TilingResultOf(el) ==
    [blocksInRange |-> el.blocksInRange,
     resolutionBlockCount |-> el.resolutionBlockCount,
     firstResBlockCount |-> el.firstResBlockCount,
     lastResBlockCount |-> el.lastResBlockCount,
     leafWeekdays |-> el.leafWeekdays,
     yearRowData |-> el.yearRowData,
     monthRowData |-> el.monthRowData,
     dayRowData |-> el.dayRowData]

\* An element without a history, in or out of the document as el is.
FreshLike(el) == IF el.connected THEN ConnectedElement ELSE NewTimelineElement

\* C26: after a successful updateTimeLine(resolution, start, end, provider)
\* the tiling result (the four counters, the weekday of every leaf and the
\* year, month and day rows) is the one an element without a history gets
\* from the same call.
C26_RebuildFromScratch ==
    (lastCall.op = "updateTimeLine" /\ Tiled /\ ~this.threw) =>
        TilingResultOf(this)
          = TilingResultOf(
                updateTimeLine(FreshLike(this), Layout(this, env),
                               lastCall.resolution, lastCall.startDate, lastCall.endDate,
                               DefaultLocaleDataProvider(this.timeZone, this.firstDayOfWeek)))

CountersOf(el) ==
    <<el.blocksInRange, el.resolutionBlockCount, el.firstResBlockCount, el.lastResBlockCount>>

\* C27: a scroll refill (fillVisibleTimeline and everything it calls)
\* leaves blocksInRange, resolutionBlockCount, firstResBlockCount and
\* lastResBlockCount as they were, at every resolution.
C27_RefillKeepsTheCounters ==
    [][lastCall'.op = "fillVisibleTimeline" => CountersOf(this') = CountersOf(this)]_vars

(***************************************************************************)
(* The rows as run-length encodings.                                       *)
(***************************************************************************)
\* The label of every leaf, in emission order.
YearLabels == [i \in DOMAIN this.leafDates |-> getYear(this.localeDataProvider, this.leafDates[i])]
MonthLabels == [i \in DOMAIN this.leafDates |-> getMonth(this.localeDataProvider, this.leafDates[i])]
DayLabels == [i \in DOMAIN this.leafDates |-> getDay(this.localeDataProvider, this.leafDates[i])]

\* The number of leaves before the k-th entry of the row.
LeavesBefore(rowData, k) == SumOfLengths(SubSeq(rowData.blockLength, 1, k - 1))

\* The entries of the row, in insertion order, are the maximal runs of
\* equal consecutive labels.
IsRunLengthEncoding(rowData, labels) ==
    /\ Len(rowData.blocks) = Len(rowData.blockLength)
    /\ \A k \in DOMAIN rowData.blocks :
          /\ rowData.blocks[k].key = rowData.blockLength[k].key
          /\ rowData.blockLength[k].val >= 1
          /\ \A j \in DOMAIN rowData.blocks : j # k => rowData.blocks[j].key # rowData.blocks[k].key
          /\ k > 1 => rowData.blocks[k - 1].val # rowData.blocks[k].val
          /\ \A i \in 1..rowData.blockLength[k].val :
                /\ LeavesBefore(rowData, k) + i \in DOMAIN labels
                /\ labels[LeavesBefore(rowData, k) + i] = rowData.blocks[k].val
    /\ SumOfLengths(rowData.blockLength) = Len(labels)

\* C28: every rendered aggregation row is the run-length encoding of the
\* labels of the leaves: no two adjacent entries carry the same label, every
\* length is at least 1, the keys are unique, and the entries expanded to
\* their lengths are the label sequence of the leaves.
C28_RowsAreRunLengthEncodings ==
    Tiled =>
        /\ this.yearRowVisible => IsRunLengthEncoding(this.yearRowData, YearLabels)
        /\ this.monthRowVisible => IsRunLengthEncoding(this.monthRowData, MonthLabels)
        /\ isDayRowVisible(this) => IsRunLengthEncoding(this.dayRowData, DayLabels)

\* A tiling that crosses the end of a year: two runs in the year row and in
\* the month row, one of them longer than one leaf.
C28_Witness ==
    /\ Tiled /\ this.yearRowVisible /\ this.monthRowVisible
    /\ Len(this.yearRowData.blocks) = 2
    /\ Len(this.monthRowData.blocks) = 2
    /\ \E k \in DOMAIN this.monthRowData.blockLength : this.monthRowData.blockLength[k].val > 1

(***************************************************************************)
(* The short weeks of a Week tiling, by the calendar.                      *)
(***************************************************************************)
\* The provider's first day of the week (1 = Sunday) as a Date.getDay()
\* value (0 = Sunday).
FirstDayIndex == getFirstDayOfWeek(this.localeDataProvider) - 1

StartDayIndex == getDayOfWeek(this.timeZone, this.startDateTime)
LastLeafDayIndex == getDayOfWeek(this.timeZone, this.leafDates[Len(this.leafDates)])

\* The days from the start weekday through the last day of its week.
DaysOfFirstWeek == (FirstDayIndex - StartDayIndex + 7) % 7
\* The days from the first day of the last week through the last leaf.
DaysOfLastWeek == ((LastLeafDayIndex - FirstDayIndex + 7) % 7) + 1

\* C29: at Week resolution a range that starts inside a week has
\* firstResBlockCount = the days from the start weekday through the last
\* day of that week (or through the end of the range), and a range that
\* ends inside a later week has lastResBlockCount = the days of that week
\* up to the end; each is in 1..6.
C29_ShortWeeksCountTheDaysPresent ==
    (Tiled /\ this.resolution = "Week" /\ this.endDateTime >= this.startDateTime) =>
        /\ StartDayIndex # FirstDayIndex =>
              /\ this.firstResBlockCount = Min(DaysOfFirstWeek, this.blocksInRange)
              /\ this.firstResBlockCount \in 1..6
        /\ (this.blocksInRange > DaysOfFirstWeek /\ DaysOfLastWeek < 7) =>
              /\ this.lastResBlockCount = DaysOfLastWeek
              /\ this.lastResBlockCount \in 1..6

(***************************************************************************)
(* The order of the leaves.                                                *)
(***************************************************************************)
\* The least step between two leaves: the interval, less the zone's DST
\* adjustment where the tiler steps through getDSTAdjustedDate (Day and
\* Week; the Hour tiler adds the interval only).
LeastStep ==
    IntervalOf(this.resolution)
      - (IF this.resolution = "Hour" THEN 0 ELSE DstSaving(this.timeZone))

StoredOffset(left) == IF left = Undefined THEN 0 ELSE left

\* C31: positionLeft is the offset of the most recent setScrollLeft (no
\* other operation writes it), every deferred refill reads it when it runs,
\* and the window it renders starts at that offset or inside the block
\* before it (at 0 when the timeline does not overflow).
C31_LastSignalWins ==
    [][/\ lastCall'.op = "setScrollLeft" => this'.positionLeft = StoredOffset(lastCall'.left)
       /\ lastCall'.op # "setScrollLeft" => this'.positionLeft = this.positionLeft
       /\ lastCall'.op = "fillVisibleTimeline" =>
             /\ this' = fillVisibleTimeline(this, Layout(this, env))
             /\ ~isTimelineOverflowingHorizontally(this) => this'.colLeft = 0
             /\ (isTimelineOverflowingHorizontally(this) /\ ~this'.threw) =>
                   /\ this'.colLeft <= this.positionLeft
                   /\ this.positionLeft - this'.colLeft < Max(this.resBlockWidthPx, 1)]_vars

\* The last pending refill has run on an overflowing timeline scrolled to
\* 30: the window it rendered is moved to the right.
C31_Witness ==
    /\ lastCall.op = "fillVisibleTimeline" /\ ~lastCall.stale
    /\ timers = <<>>
    /\ isTimelineOverflowingHorizontally(this)
    /\ this.positionLeft = 30
    /\ this.colLeft > 0

(***************************************************************************)
(* The scroll subscription and the renders.                                *)
(***************************************************************************)
\* The step is an updateTimeLine call with a resolution, a start and an
\* end, at a supported resolution: a call that does not return early.
FullRender ==
    /\ lastCall'.op = "updateTimeLine"
    /\ lastCall'.resolution \in Resolutions
    /\ lastCall'.startDate # NoDate
    /\ lastCall'.endDate # NoDate

\* The scroll handler is created by a call that does not return early
\* only, and a render of an element that has one leaves the subscription
\* as it is.
C32_NoHandlerFromEarlyReturn ==
    [][/\ (this'.scrollHandler /\ ~this.scrollHandler) => FullRender
       /\ (this.scrollHandler /\ lastCall'.op = "updateTimeLine") =>
             /\ this'.scrollHandler
             /\ this'.listening = this.listening
             /\ this'.scrollContainer = this.scrollContainer]_vars

\* C32: the scroll handler is created and subscribed by the first
\* updateTimeLine call that runs to completion, never by a call that
\* returns early, and not a second time by a later render.
C32_ArmedByFirstCompleteRender ==
    [][/\ (this'.scrollHandler /\ ~this.scrollHandler) =>
             FullRender /\ ~this'.threw /\ this'.listening
       /\ (FullRender /\ ~this'.threw) => this'.scrollHandler /\ this'.listening
       /\ (this.scrollHandler /\ lastCall'.op = "updateTimeLine") =>
             /\ this'.scrollHandler
             /\ this'.listening = this.listening
             /\ this'.scrollContainer = this.scrollContainer]_vars

(***************************************************************************)
(* The pool after a refill.                                                *)
(***************************************************************************)
\* The element with a pool of as many slots, none of them filled yet: the
\* pool createTimelineElementsOnVisibleArea leaves.
WithNewPool(el) == [el EXCEPT !.slots = [i \in DOMAIN el.slots |-> NoDate]]

\* C33: after a refill at an offset, every slot of the pool is what the
\* same refill makes of a pool that was never filled before: the slots do
\* not depend on the offsets the pool was filled at earlier.
C33_RefillIsHistoryIndependent ==
    (lastCall.op = "fillVisibleTimeline" /\ Tiled /\ ~this.threw) =>
        this.slots = fillVisibleTimeline(WithNewPool(this), Layout(this, env)).slots

(***************************************************************************)
(* The range a position is inverted against.                               *)
(***************************************************************************)
\* The date of the right edge of the timeline: the start plus the whole
\* range getDateForLeftPosition scales by.
DateOfRightEdge ==
    getDateForLeftPosition(this, Layout(this, env),
                           FracOf(getResolutionWidth(this, Layout(this, env))))

\* C34: at Hour resolution the range a position is inverted against is
\* normalEndDate - normalStartDate corrected by the difference of the DST
\* adjustments at the start and at the end, which is endDateTime -
\* startDateTime; at Day and Week resolution it is the uncorrected
\* normalEndDate - normalStartDate.
C34_InversionRange ==
    (Tiled /\ getResolutionWidth(this, Layout(this, env)) > 0) =>
        /\ adjustDateRangeByDST(this, this.normalEndDate - this.normalStartDate)
             = this.endDateTime - this.startDateTime
        /\ this.resolution = "Hour" => DateOfRightEdge = this.endDateTime
        /\ this.resolution \in {"Day", "Week"} =>
              DateOfRightEdge
                = this.startDateTime + (this.normalEndDate - this.normalStartDate)

\* An Hour tiling whose start and end have different DST adjustments.
C34_Witness ==
    /\ Tiled /\ this.resolution = "Hour"
    /\ getResolutionWidth(this, Layout(this, env)) > 0
    /\ getDaylightAdjustment(this.localeDataProvider, this.startDateTime)
         # getDaylightAdjustment(this.localeDataProvider, this.endDateTime)
    /\ this.normalEndDate - this.normalStartDate # this.endDateTime - this.startDateTime

(***************************************************************************)
(* The widths a refill reads.                                              *)
(***************************************************************************)
WidthsOf(el) == <<el.dayOrHourWidthPx, el.resBlockWidthPx, el.resBlockMinWidthPx>>

\* The widths updateWidths computes for the tiling of el in the layout.
WidthsFor(el, page) ==
    <<calculateDayOrHourResolutionBlockWidthPx(el, page, el.blocksInRange),
      calculateActualResolutionBlockWidthPx(
          el, calculateDayOrHourResolutionBlockWidthPx(el, page, el.blocksInRange)),
      IF el.resolution = "Week" THEN DAYS_IN_WEEK * el.minResolutionWidth
      ELSE el.minResolutionWidth>>

\* showResolutionBlocksOnView reads the widths of el: the timeline is
\* scrolled and has a block width.
ReadsWidths(el) == el.positionLeft > 0 /\ el.resBlockWidthPx > 0

\* C35: a refill that reads the pixel widths reads the widths of the
\* current tiling and container: the deferred refill finds them in the
\* element, and the refill inside a rebuild, which runs on the widths the
\* element had before the call, finds there the widths the rebuild ends
\* with.
C35_RefillReadsCurrentWidths ==
    [][/\ (lastCall'.op = "fillVisibleTimeline"
             /\ isTimelineOverflowingHorizontally(this) /\ ReadsWidths(this))
          => WidthsOf(this) = WidthsFor(this, Layout(this, env))
       /\ (lastCall'.op = "updateTimeLine" /\ this'.shadowContent
             /\ isTimelineOverflowingHorizontally(this') /\ ReadsWidths(this))
          => WidthsOf(this) = WidthsOf(this')]_vars

\* The deferred refills alone read the widths of the current tiling.
C35_DeferredRefillReadsCurrentWidths ==
    [][(lastCall'.op = "fillVisibleTimeline"
          /\ isTimelineOverflowingHorizontally(this) /\ ReadsWidths(this))
       => WidthsOf(this) = WidthsFor(this, Layout(this, env))]_vars

(***************************************************************************)
(* The widths of the week blocks, in days.                                 *)
(***************************************************************************)
\* The days updateResolutionBlockWidths gives the i-th of the week blocks.
WeekBlockDays(i) ==
    IF isFirstResBlockShort(this) /\ i = 1 THEN this.firstResBlockCount
    ELSE IF isLastResBlockShort(this) /\ i = this.childElementCount
    THEN this.lastResBlockCount
    ELSE DAYS_IN_WEEK

RECURSIVE WeekBlockDaysUpTo(_)
WeekBlockDaysUpTo(i) == IF i = 0 THEN 0 ELSE WeekBlockDays(i) + WeekBlockDaysUpTo(i - 1)

\* C36: in a Week timeline that does not overflow the widths of the week
\* blocks, counted in days, sum to blocksInRange.
C36_WeekBlocksSpanTheRange ==
    (Tiled /\ this.resolution = "Week" /\ ~isTimelineOverflowingHorizontally(this)
       /\ this.endDateTime >= this.startDateTime) =>
        /\ this.childElementCount = this.resolutionBlockCount
        /\ WeekBlockDaysUpTo(this.childElementCount) = this.blocksInRange

(***************************************************************************)
(* Agreement of the two DST queries of the provider.                       *)
(***************************************************************************)
\* C37: for every date and zone isDaylightTime(date) is true exactly when
\* getDaylightAdjustment(date) > 0, so the boundary returned by the stepper,
\* which tests dstAdjustment > 0, is the one its rule gives with the
\* isDaylightTime flag of the same date.
C37_ResolverQueriesAgree ==
    lastCall.op = "getDSTAdjustedDate" =>
        /\ isDaylightTime(StepperProvider, lastCall.zonedDate)
             <=> getDaylightAdjustment(StepperProvider, lastCall.zonedDate) > 0
        /\ lastCall.result =
             IF lastCall.previousIsDST
                  /\ ~isDaylightTime(StepperProvider, lastCall.zonedDate)
             THEN lastCall.zonedDate
                    + getDaylightAdjustment(StepperProvider, lastCall.zonedDate)
             ELSE IF ~lastCall.previousIsDST
                       /\ isDaylightTime(StepperProvider, lastCall.zonedDate)
             THEN lastCall.zonedDate
                    - getDaylightAdjustment(StepperProvider, lastCall.zonedDate)
             ELSE lastCall.zonedDate

C37_Witness ==
    /\ lastCall.op = "getDSTAdjustedDate"
    /\ lastCall.timeZone = "Europe/London"
    /\ ~lastCall.previousIsDST
    /\ isDaylightTime(StepperProvider, lastCall.zonedDate)
    /\ getDaylightAdjustment(StepperProvider, lastCall.zonedDate) = HOUR_INTERVAL
    /\ lastCall.result = lastCall.zonedDate - HOUR_INTERVAL

(***************************************************************************)
(* The weekday counter of the Day/Week tiler.                              *)
(***************************************************************************)
\* The value of dayCounter when the tiler registers leaf i: it starts at
\* firstDayOfRange and steps by Math.max((dayCounter + 1) % 8, 1).
RECURSIVE DayCounterOfLeaf(_)
DayCounterOfLeaf(i) ==
    IF i = 1 THEN this.firstDayOfRange
    ELSE Max(JsMod(DayCounterOfLeaf(i - 1) + 1, 8), 1)

\* C38: the weekday counter of the Day/Week tiler is, at every leaf, a value
\* in 1..7 that is the weekday of the leaf on the scale 1 = Sunday, also when
\* firstDayOfRange was derived from the start date by resetDateRange.
C38_CounterIsTheWeekday ==
    (Tiled /\ this.resolution \in {"Day", "Week"}) =>
        \A i \in 1..Len(this.leafDates) :
            /\ DayCounterOfLeaf(i) \in 1..7
            /\ DayCounterOfLeaf(i) = getDayOfWeek(this.timeZone, this.leafDates[i]) + 1

(***************************************************************************)
(* Striping and weekend marking of the refilled slots.                     *)
(***************************************************************************)
\* isEven of fillTimelineForHourResolution.
isEven(el, startDate) ==
    With(toNormalDate(el.localeDataProvider, startDate), LAMBDA normalDate :
        IF el.normalStartDate < normalDate
        THEN ((normalDate - el.normalStartDate) \div HOUR_INTERVAL) % 2 = 1
        ELSE FALSE)

\* The date showResolutionBlocksOnView starts the fill from.
LeftDateOf(el, page) ==
    With(getScrollOverflowForResolutionBlock(el, page, el.positionLeft,
             el.positionLeft, isFirstResBlockShort(el)), LAMBDA o :
    With(el.positionLeft > 0 /\ el.resBlockWidthPx > 0, LAMBDA scrolled :
    With(IF scrolled
         THEN adjustLeftPositionForDateDetection(el, el.positionLeft - o.overflow)
         ELSE FracOf(el.positionLeft), LAMBDA datePos0 :
        getDateForLeftPositionNoticeDST(
            [el EXCEPT !.firstWeekBlockHidden = scrolled /\ o.firstWeekBlockHidden],
            page,
            IF datePos0.n < 0 THEN FracOf(el.positionLeft) ELSE datePos0,
            el.resolution = "Hour"))))

\* The leaves of the tiling for the hour (Hour) or the local day (Day) of
\* the date, and the first of them.
LeavesHolding(date) ==
    {j \in 1..Len(this.leafDates) :
        IF this.resolution = "Hour"
        THEN this.leafDates[j] \div HOUR_INTERVAL = date \div HOUR_INTERVAL
        ELSE LocalDayNumber(this.timeZone, this.leafDates[j])
               = LocalDayNumber(this.timeZone, date)}

LeafHolding(date) == CHOOSE j \in LeavesHolding(date) : \A k \in LeavesHolding(date) : j <= k

\* A scrolled timeline of five hours over the end or the start of summer
\* time in London, or of five days.
StripeLen == 4
StripeStarts == {<<2020, 10, 25, 0>>, <<2020, 3, 29, 0>>, <<2019, 12, 29, 0>>}
StripePositions == {0, 21, 42, 63}

InitStripes ==
    /\ env \in [parentWidth : {40}, measureWidth : MeasureWidths]
    /\ this = ConnectedElement
    /\ timers = <<>>
    /\ lastCall = [op |-> "none", stale |-> FALSE]

NextStripes ==
    \/ this.startDateTime = NoDate
         /\ \E resolution \in {"Hour", "Day"}, l \in StripeStarts :
               LET start == StartOf(this.timeZone, l)
               IN  SetDateRange(resolution, start,
                                EndOf(resolution, start, StripeLen, FALSE))
    \/ \E left \in StripePositions : SetScrollLeft(left)
    \/ LazyResolutionPaint

SpecStripes == InitStripes /\ [][NextStripes]_vars

\* C39: the even flag (Hour) and the weekend flag (Day) that a refill of
\* a scrolled timeline gives its first slot are the ones of the leaf the
\* slot shows: even for the leaves at an odd distance from the start,
\* weekend by the weekday counter the unscrolled walk reaches at that leaf.
C39_FlagsFollowTheLeaf ==
    [][(/\ lastCall'.op = "fillVisibleTimeline"
        /\ isTimelineOverflowingHorizontally(this)
        /\ ~this'.threw
        /\ LeavesHolding(this'.slots[1]) # {}) =>
           /\ this.resolution = "Hour" =>
                 isEven(this, LeftDateOf(this, env))
                   = ((LeafHolding(this'.slots[1]) - 1) % 2 = 1)
           /\ this.resolution = "Day" =>
                 isWeekEnd(getFirstDayOfVisibleRange(this, LeftDateOf(this, env)))
                   = isWeekEnd(DayCounterOfLeaf(LeafHolding(this'.slots[1])))]_vars

(***************************************************************************)
(* Termination of the Day/Week loops.                                      *)
(***************************************************************************)
\* The most passes of a loop that the model follows.
MaxIterations == 16

\* The for loop that compares the day itself with lastDayOfWeek.
RECURSIVE CalcDaysLoop_NoWrap(_, _, _)
CalcDaysLoop_NoWrap(i, daysLeftInWeek, lastDayOfWeek) ==
    IF daysLeftInWeek >= MaxIterations THEN daysLeftInWeek
    ELSE IF i = lastDayOfWeek THEN daysLeftInWeek + 1
    ELSE CalcDaysLoop_NoWrap(i + 1, daysLeftInWeek + 1, lastDayOfWeek)

calcDaysLeftInFirstWeek_NoWrap(el, startDay) ==
    IF startDay # el.firstDayOfWeek
    THEN CalcDaysLoop_NoWrap(startDay, 0, el.lastDayOfWeek)
    ELSE 0

\* for (let i = startDay; ; i++): daysLeftInWeek counts the passes.
RECURSIVE CalcDaysLoop(_, _, _)
CalcDaysLoop(i, daysLeftInWeek, lastDayOfWeek) ==
    IF daysLeftInWeek >= MaxIterations THEN daysLeftInWeek
    ELSE IF Max(JsMod(i, 8), 1) = lastDayOfWeek THEN daysLeftInWeek + 1
    ELSE CalcDaysLoop(i + 1, daysLeftInWeek + 1, lastDayOfWeek)

calcDaysLeftInFirstWeek(el, startDay) ==
    IF startDay # el.firstDayOfWeek
    THEN CalcDaysLoop(startDay, 0, el.lastDayOfWeek)
    ELSE 0

\* The element after updateTimeLine with the first day of week f.
WithFirstDayOfWeek(el, f) ==
    [el EXCEPT !.firstDayOfWeek = f,
               !.lastDayOfWeek =
                   LastDayOfWeekOf(DefaultLocaleDataProvider(el.timeZone, f))]

\* The passes of the refill loop over the dates from startDate to endDate.
FillPasses(el, startDate, endDate) ==
    FillDayOrWeekLoop(
        [pos |-> adjustToMiddleOfDay(el.localeDataProvider.timeZone, startDate),
         index |-> 0, weekIndex |-> 0,
         lastTimelineBlock |-> FALSE,
         previousIsDST |-> isDaylightTime(el.localeDataProvider, startDate),
         dayCounter |-> getFirstDayOfVisibleRange(el, startDate),
         this |-> el], DAY_INTERVAL, endDate).index

\* The passes a loop over the range can take: one, or every least step of
\* the range and one at either end.
MostPasses ==
    Max(1, (this.endDateTime - this.startDateTime) \div LeastStep + 2)

\* C40: the Day/Week tiling loop and the Day/Week refill loop end for
\* every start and end, after a number of passes between one and a bound
\* given by the range; the loop of calcDaysLeftInFirstWeek ends within 8
\* passes for every start weekday and first day of week.
C40_LoopsTerminate ==
    (Tiled /\ this.resolution \in {"Day", "Week"}) =>
        /\ Len(this.leafDates) \in 1..MostPasses
        /\ FillPasses(this, this.startDateTime, this.endDateTime) \in 1..MostPasses
        /\ \A startDay \in 0..7, f \in 0..7 :
              calcDaysLeftInFirstWeek(WithFirstDayOfWeek(this, f), startDay) \in 0..8

C40_Witness ==
    /\ Tiled /\ this.resolution = "Week"
    /\ this.endDateTime < this.startDateTime
    /\ Len(this.leafDates) = 1
    /\ FillPasses(this, this.startDateTime, this.endDateTime) = 1
    /\ calcDaysLeftInFirstWeek(this, this.firstDayOfRange) > 1
    /\ \E startDay \in 0..7, f \in 0..7 :
          calcDaysLeftInFirstWeek(WithFirstDayOfWeek(this, f), startDay) = 8

=========================================================================
